---- MODULE Spec2Model ----
(***************************************************************************)
(* State-machine model of the data-tree-browser viewer (src/app.js):       *)
(* path utilities, the tree builder, keyboard / pointer navigation, store  *)
(* loading and the location-hash deep links.                               *)
(*                                                                         *)
(* Strings are modelled as sequences of one-character strings, so that     *)
(* the regular-expression and split/join code of the source is computed    *)
(* character by character.  The three manifest suffixes ".zgroup",         *)
(* ".zarray", ".zattrs" and the URL fragment ".zarr" are single tokens of  *)
(* such a sequence.                                                        *)
(***************************************************************************)
EXTENDS Integers, Sequences, FiniteSets, TLC

VARIABLES
    remote,      \* what each store base serves for <base>/.zmetadata
    state,       \* the viewer state object of app.js (line 19)
    hash,        \* location.hash without the leading '#'
    hashEvents,  \* queued, not yet dispatched hashchange events
    dom,         \* the page: anchors that call setActive, the slide, the aggregate panel
    inflight,    \* loadStore calls suspended at their await
    namingSpec,  \* value of the #namingSpec input
    ev           \* the event handled last (observation only)

vars == <<remote, state, hash, hashEvents, dom, inflight, namingSpec, ev>>

(***************************************************************************)
(* Strings                                                                 *)
(***************************************************************************)
Slash == "/"

\* Collation order of the characters used in names (String.localeCompare:
\* punctuation sorts before letters, letters alphabetically).
Alphabet == <<"_", "a", "b", "c", "d", "e", "f", "g", "h">>

CharRank(c) ==
    IF \E i \in 1..Len(Alphabet) : Alphabet[i] = c
    THEN CHOOSE i \in 1..Len(Alphabet) : Alphabet[i] = c
    ELSE 0

Last(s) == s[Len(s)]
Front(s) == SubSeq(s, 1, Len(s) - 1)

RECURSIVE Concat(_)
\* Array.prototype.join("") of a sequence of strings
Concat(ss) == IF ss = <<>> THEN <<>> ELSE Head(ss) \o Concat(Tail(ss))

RECURSIVE JoinWith(_, _)
\* Array.prototype.join(sep)
JoinWith(ss, sep) ==
    IF ss = <<>> THEN <<>>
    ELSE IF Len(ss) = 1 THEN Head(ss)
    ELSE Head(ss) \o <<sep>> \o JoinWith(Tail(ss), sep)

RECURSIVE SplitAcc(_, _, _, _)
SplitAcc(s, sep, cur, acc) ==
    IF s = <<>> THEN Append(acc, cur)
    ELSE IF Head(s) = sep THEN SplitAcc(Tail(s), sep, <<>>, Append(acc, cur))
    ELSE SplitAcc(Tail(s), sep, Append(cur, Head(s)), acc)

\* String.prototype.split(sep): empty pieces are kept
Split(s, sep) == SplitAcc(s, sep, <<>>, <<>>)

\* .filter(Boolean) on a list of strings: drops the empty strings
FilterNonEmpty(ss) == SelectSeq(ss, LAMBDA x : x # <<>>)

RECURSIVE CollapseSlashes(_)
\* p.replace(/\/+/g, "/")
CollapseSlashes(s) ==
    IF Len(s) < 2 THEN s
    ELSE IF s[1] = Slash /\ s[2] = Slash THEN CollapseSlashes(Tail(s))
    ELSE <<Head(s)>> \o CollapseSlashes(Tail(s))

\* s.replace(/\/$/, "")
StripTrailingSlash(s) ==
    IF s # <<>> /\ Last(s) = Slash THEN Front(s) ELSE s

(***************************************************************************)
(* Path utilities                                                          *)
(***************************************************************************)
RootPath == <<Slash>>

normalizeBase(url) == StripTrailingSlash(url)

\* Mutation of normalizePath: repeated separators are not collapsed
normalizePathNoCollapse(p) ==
    IF p = <<>> THEN RootPath
    ELSE LET s2 == IF Head(p) # Slash THEN <<Slash>> \o p ELSE p
         IN  IF Len(s2) > 1 THEN StripTrailingSlash(s2) ELSE s2

normalizePath(p) ==
    IF p = <<>> THEN RootPath
    ELSE LET s1 == CollapseSlashes(p)
             s2 == IF Head(s1) # Slash THEN <<Slash>> \o s1 ELSE s1
         IN  IF Len(s2) > 1 THEN StripTrailingSlash(s2) ELSE s2

PathParts(np) == FilterNonEmpty(Split(np, Slash))

dirname(p) ==
    LET np == normalizePath(p)
    IN  IF np = RootPath THEN RootPath
        ELSE <<Slash>> \o JoinWith(Front(PathParts(np)), Slash)

basename(p) ==
    LET np == normalizePath(p)
        parts == PathParts(np)
    IN  IF np = RootPath THEN RootPath
        ELSE IF parts = <<>> THEN RootPath
        ELSE Last(parts)

\* Mutation of join: the separator between parent and child is left out
joinNoSeparator(parent, childBase) ==
    normalizePath(normalizePath(parent) \o childBase)

join(parent, childBase) ==
    LET pp == normalizePath(parent)
        out == IF pp = RootPath THEN <<Slash>> \o childBase
               ELSE pp \o <<Slash>> \o childBase
    IN  normalizePath(out)

(***************************************************************************)
(* JSON values.  Every value is a record of the same shape so that values  *)
(* of different JavaScript types can be compared: t is the type, s the     *)
(* text of a string, kv the ordered key/value pairs of an object           *)
(* (insertion order, as Object.entries returns them).                      *)
(***************************************************************************)
JUndefined == [t |-> "undefined", s |-> <<>>, kv |-> <<>>]
JNull == [t |-> "null", s |-> <<>>, kv |-> <<>>]
JTrue == [t |-> "boolean", s |-> <<"1">>, kv |-> <<>>]
JFalse == [t |-> "boolean", s |-> <<"0">>, kv |-> <<>>]
\* Numbers 0..9 are kept as their decimal digit
Digits == <<"0", "1", "2", "3", "4", "5", "6", "7", "8", "9">>
JNum(n) == [t |-> "number", s |-> <<Digits[n + 1]>>, kv |-> <<>>]
NumOf(v) == (CHOOSE i \in 1..Len(Digits) : Digits[i] = v.s[1]) - 1
\* A JSON array: its elements keyed by their index, as Object.entries lists them
JArr(items) ==
    [t |-> "array", s |-> <<>>,
     kv |-> [i \in 1..Len(items) |-> << <<Digits[i]>>, items[i] >>]]
Items(v) == [i \in 1..Len(v.kv) |-> v.kv[i][2]]
JStr(str) == [t |-> "string", s |-> str, kv |-> <<>>]
JObj(pairs) == [t |-> "object", s |-> <<>>, kv |-> pairs]
EmptyObj == JObj(<<>>)

\* JavaScript truthiness of a value
Truthy(v) ==
    CASE v.t \in {"undefined", "null"} -> FALSE
      [] v.t = "string" -> v.s # <<>>
      [] v.t \in {"number", "boolean"} -> v.s # <<"0">>
      [] OTHER -> TRUE

\* v || {}
OrEmptyObj(v) == IF Truthy(v) THEN v ELSE EmptyObj

\* obj[key] (undefined when absent or when obj holds no properties)
GetProp(obj, key) ==
    IF \E i \in 1..Len(obj.kv) : obj.kv[i][1] = key
    THEN obj.kv[CHOOSE i \in 1..Len(obj.kv) : obj.kv[i][1] = key][2]
    ELSE JUndefined

\* typeof v === "object" (null included, as in JavaScript)
TypeofObject(v) == v.t \in {"object", "array", "null"}

\* Array.isArray(v)
IsArray(v) == v.t = "array"

\* Object.entries(v): the pairs of an object; a string yields one entry per
\* character keyed by its index; other primitives yield none.
ObjectEntries(v) ==
    CASE v.t \in {"object", "array"} -> v.kv
      [] v.t = "string" -> [i \in 1..Len(v.s) |-> <<<<"#">>, JStr(<<v.s[i]>>)>>]
      [] OTHER -> <<>>

(***************************************************************************)
(* Tree builder (buildTree, ensureNode)                                    *)
(***************************************************************************)
ZGROUP == ".zgroup"
ZARRAY == ".zarray"
ZATTRS == ".zattrs"
Markers == {ZGROUP, ZARRAY, ZATTRS}

\* key.endsWith(marker)
EndsWith(key, marker) == key # <<>> /\ Last(key) = marker

NullTree == [null |-> TRUE, pathMap |-> <<>>]

\* pathMap is a JavaScript Map: a sequence of nodes in insertion order
HasPath(map, np) == \E i \in 1..Len(map) : map[i].path = np
IndexOf(map, np) == CHOOSE i \in 1..Len(map) : map[i].path = np

\* { path: np, type: "group", attrs: {}, children: [] }  (zarray undefined)
NewNode(np) ==
    [path |-> np, type |-> "group", attrs |-> EmptyObj,
     zarray |-> JUndefined, children |-> <<>>]

\* The map after ensureNode(map, path); the node it returns is the one at
\* IndexOf(map', normalizePath(path)).
ensureNode(map, path) ==
    LET np == normalizePath(path)
    IN  IF HasPath(map, np) THEN map ELSE Append(map, NewNode(np))

\* Mutation of ApplyEntry: an attributes entry makes its node a group
ApplyEntryAttrsMakeGroup(map, key, value) ==
    IF ~(EndsWith(key, ZGROUP) \/ EndsWith(key, ZARRAY) \/ EndsWith(key, ZATTRS))
    THEN map
    ELSE LET path == normalizePath(<<Slash>> \o Front(key))
             m1 == ensureNode(map, path)
             i == IndexOf(m1, path)
             n0 == m1[i]
             n1 == IF EndsWith(key, ZGROUP) \/ EndsWith(key, ZATTRS)
                   THEN [n0 EXCEPT !.type = "group"] ELSE n0
             n2 == IF EndsWith(key, ZARRAY) THEN [n1 EXCEPT !.type = "array"] ELSE n1
             n3 == IF EndsWith(key, ZATTRS)
                   THEN [n2 EXCEPT !.attrs = OrEmptyObj(value)] ELSE n2
             n4 == IF EndsWith(key, ZARRAY)
                   THEN [n3 EXCEPT !.zarray = OrEmptyObj(value)] ELSE n3
         IN  [m1 EXCEPT ![i] = n4]

\* One iteration of the loop over Object.entries(meta)
ApplyEntry(map, key, value) ==
    IF ~(EndsWith(key, ZGROUP) \/ EndsWith(key, ZARRAY) \/ EndsWith(key, ZATTRS))
    THEN map
    ELSE LET path == normalizePath(<<Slash>> \o Front(key))
             m1 == ensureNode(map, path)
             i == IndexOf(m1, path)
             n0 == m1[i]
             n1 == IF EndsWith(key, ZGROUP) THEN [n0 EXCEPT !.type = "group"] ELSE n0
             n2 == IF EndsWith(key, ZARRAY) THEN [n1 EXCEPT !.type = "array"] ELSE n1
             n3 == IF EndsWith(key, ZATTRS)
                   THEN [n2 EXCEPT !.attrs = OrEmptyObj(value)] ELSE n2
             n4 == IF EndsWith(key, ZARRAY)
                   THEN [n3 EXCEPT !.zarray = OrEmptyObj(value)] ELSE n3
         IN  [m1 EXCEPT ![i] = n4]

RECURSIVE ApplyEntries(_, _)
ApplyEntries(map, entries) ==
    IF entries = <<>> THEN map
    ELSE ApplyEntries(ApplyEntry(map, Head(entries)[1], Head(entries)[2]),
                      Tail(entries))

Includes(seq, x) == \E i \in 1..Len(seq) : seq[i] = x

\* Body of the loop "for (const p of pathMap.keys())" for the i-th key
LinkToParent(map, i) ==
    LET p == map[i].path
    IN  IF p = RootPath THEN map
        ELSE LET parent == dirname(p)
                 base == basename(p)
                 m1 == ensureNode(map, parent)
                 j == IndexOf(m1, normalizePath(parent))
             IN  IF Includes(m1[j].children, base) THEN m1
                 ELSE [m1 EXCEPT ![j].children = Append(@, base)]

RECURSIVE InferParents(_, _)
\* The iterator of a Map is live: keys appended by ensureNode during the
\* loop are visited too, so the loop runs until the end of the grown map.
InferParents(map, i) ==
    IF i > Len(map) THEN map
    ELSE InferParents(LinkToParent(map, i), i + 1)

RECURSIVE LexLess(_, _)
\* a.localeCompare(b) < 0 for names over Alphabet
LexLess(a, b) ==
    IF b = <<>> THEN FALSE
    ELSE IF a = <<>> THEN TRUE
    ELSE IF CharRank(Head(a)) # CharRank(Head(b))
         THEN CharRank(Head(a)) < CharRank(Head(b))
    ELSE LexLess(Tail(a), Tail(b))

RECURSIVE InsertSorted(_, _)
InsertSorted(sorted, x) ==
    IF sorted = <<>> THEN <<x>>
    ELSE IF LexLess(x, Head(sorted)) THEN <<x>> \o sorted
    ELSE <<Head(sorted)>> \o InsertSorted(Tail(sorted), x)

RECURSIVE SortNames(_)
\* children.sort((a, b) => a.localeCompare(b))  (stable)
SortNames(names) ==
    IF names = <<>> THEN <<>>
    ELSE InsertSorted(SortNames(Front(names)), Last(names))

\* Mutation of SortChildren: the children stay in insertion order
SortChildrenSkipped(map) == map

SortChildren(map) ==
    [i \in 1..Len(map) |-> [map[i] EXCEPT !.children = SortNames(@)]]

RECURSIVE InferParentsUpTo(_, _, _)
InferParentsUpTo(map, i, n) ==
    IF i > n THEN map
    ELSE InferParentsUpTo(LinkToParent(map, i), i + 1, n)

\* Mutation of buildTree: the parent loop runs over a copy of the keys
\* taken before the loop, so nodes created by the loop are not visited
buildTreeKeysCopied(consolidated) ==
    LET m0 == ensureNode(<<>>, RootPath)
        m1 == [m0 EXCEPT ![IndexOf(m0, RootPath)].type = "group"]
        meta == GetProp(consolidated, <<"metadata">>)
        m2 == ApplyEntries(m1, ObjectEntries(meta))
        m3 == InferParentsUpTo(m2, 1, Len(m2))
    IN  [null |-> FALSE, pathMap |-> SortChildren(m3)]

\* buildTree(consolidated); the returned root is pathMap.get("/")
buildTree(consolidated) ==
    LET m0 == ensureNode(<<>>, RootPath)
        m1 == [m0 EXCEPT ![IndexOf(m0, RootPath)].type = "group"]
        meta == GetProp(consolidated, <<"metadata">>)
        m2 == ApplyEntries(m1, ObjectEntries(meta))
        m3 == InferParents(m2, 1)
    IN  [null |-> FALSE, pathMap |-> SortChildren(m3)]

\* tree.pathMap.get(path)
HasNode(tree, path) == HasPath(tree.pathMap, path)
NodeAt(tree, path) == tree.pathMap[IndexOf(tree.pathMap, path)]

(***************************************************************************)
(* Navigation resolver                                                     *)
(***************************************************************************)
\* tree.pathMap.get(path) is a node of type "group" / "array"
IsGroupAt(tree, path) == HasNode(tree, path) /\ NodeAt(tree, path).type = "group"
IsArrayAt(tree, path) == HasNode(tree, path) /\ NodeAt(tree, path).type = "array"

\* names.map(name => tree.pathMap.get(join(parent, name)))
\*      .filter(n => n && n.type === "group").map(n => basename(n.path))
GroupNames(tree, parent, names) ==
    LET kept == SelectSeq(names, LAMBDA name : IsGroupAt(tree, join(parent, name)))
    IN  [i \in 1..Len(kept) |-> basename(NodeAt(tree, join(parent, kept[i])).path)]

\* sibGroups.indexOf(name), zero-based, -1 when absent
IndexOfName(list, name) ==
    IF Includes(list, name)
    THEN (CHOOSE i \in 1..Len(list) :
              list[i] = name /\ \A j \in 1..(i - 1) : list[j] # name) - 1
    ELSE -1

siblingsOf(tree, path) ==
    LET parent == dirname(path)
        sibNames == IF HasNode(tree, parent) THEN NodeAt(tree, parent).children
                    ELSE <<>>
        sibGroups == GroupNames(tree, parent, sibNames)
    IN  [parent |-> parent, list |-> sibGroups,
         index |-> IndexOfName(sibGroups, basename(path))]

\* Mutation of firstChildOf: the first child is returned whatever its type
firstChildOfAnyType(tree, path) ==
    IF ~HasNode(tree, path) \/ NodeAt(tree, path).children = <<>> THEN <<>>
    ELSE join(path, NodeAt(tree, path).children[1])

\* firstChildOf(tree, path); <<>> stands for null
firstChildOf(tree, path) ==
    IF ~HasNode(tree, path) \/ NodeAt(tree, path).children = <<>> THEN <<>>
    ELSE LET kids == NodeAt(tree, path).children
             hit(i) == IsGroupAt(tree, join(path, kids[i]))
         IN  IF \E i \in 1..Len(kids) : hit(i)
             THEN NodeAt(tree, join(path,
                     kids[CHOOSE i \in 1..Len(kids) :
                              hit(i) /\ \A j \in 1..(i - 1) : ~hit(j)])).path
             ELSE <<>>

(***************************************************************************)
(* Rendering: only what later events can observe is kept, namely the       *)
(* anchors that carry a click handler calling setActive.                   *)
(***************************************************************************)
RECURSIVE TreeAnchors(_, _)
\* renderTreeNode(tree, path): the data-path of every anchor it emits
TreeAnchors(tree, path) ==
    IF ~IsGroupAt(tree, normalizePath(path)) THEN {}
    ELSE LET node == NodeAt(tree, normalizePath(path))
         IN  {node.path} \cup
             UNION { IF IsGroupAt(tree, join(node.path, node.children[i]))
                     THEN TreeAnchors(tree, join(node.path, node.children[i]))
                     ELSE {} : i \in 1..Len(node.children) }

\* renderSidebar()
renderSidebar(w) ==
    IF w.state.tree.null THEN [w EXCEPT !.dom.sidebar = {}]
    ELSE [w EXCEPT !.dom.sidebar = TreeAnchors(w.state.tree, RootPath)]

\* a.navlink anchors written by renderGroupLikeXarray, bound by bindNavLinks
GroupNavLinks(tree, node) ==
    { NodeAt(tree, join(node.path, node.children[i])).path :
        i \in { k \in 1..Len(node.children) :
                  IsGroupAt(tree, join(node.path, node.children[k])) } }

(***************************************************************************)
(* Dimension and coordinate inference (renderGroupLikeXarray)              *)
(***************************************************************************)
\* The elements of seq at the indices in keep, in their order
RECURSIVE Pick(_, _, _)
Pick(seq, keep, i) ==
    IF i > Len(seq) THEN <<>>
    ELSE (IF i \in keep THEN <<seq[i]>> ELSE <<>>) \o Pick(seq, keep, i + 1)

\* A JavaScript Map: a sequence of <<key, value>> pairs in insertion order;
\* set() on a key already present keeps the key's position.
MapHas(m, k) == \E i \in 1..Len(m) : m[i][1] = k
MapGet(m, k) == m[CHOOSE i \in 1..Len(m) : m[i][1] = k][2]
MapSet(m, k, v) ==
    IF MapHas(m, k)
    THEN [m EXCEPT ![CHOOSE i \in 1..Len(m) : m[i][1] = k] = <<k, v>>]
    ELSE Append(m, <<k, v>>)

ARRAY_DIMENSIONS == "_ARRAY_DIMENSIONS"
SHAPE == "shape"

\* collectArrays(tree, grpNode, 0, 0): the Array nodes directly in the group,
\* in the order of grpNode.children
collectArrays(tree, grpNode) ==
    Pick([i \in 1..Len(grpNode.children) |->
              NodeAt(tree, join(grpNode.path, grpNode.children[i]))],
         { i \in 1..Len(grpNode.children) :
             IsArrayAt(tree, join(grpNode.path, grpNode.children[i])) }, 1)

\* Array.isArray(arr.zarray?.shape) ? arr.zarray.shape : []
ShapeOf(arr) ==
    LET shape == GetProp(arr.zarray, <<SHAPE>>)
    IN  IF IsArray(shape) THEN Items(shape) ELSE <<>>

\* Number.isFinite(v); shape[i] is undefined past the end of the shape
IsFinite(v) == v.t = "number"
ElemAt(seq, i) == IF i \in 1..Len(seq) THEN seq[i] ELSE JUndefined

\* `dim_${i}` and d.startsWith("dim_")
DimPrefix == <<"d", "i", "m", "_">>
PlaceholderDim(i) == DimPrefix \o <<Digits[i + 1]>>
IsPlaceholderDim(d) == Len(d) >= 4 /\ SubSeq(d, 1, 4) = DimPrefix

\* inferArrayDims(arr)
inferArrayDims(arr) ==
    LET attrs == OrEmptyObj(arr.attrs)
        dimsAttr == GetProp(attrs, <<ARRAY_DIMENSIONS>>)
    IN  IF IsArray(dimsAttr) /\ \A i \in 1..Len(dimsAttr.kv) : dimsAttr.kv[i][2].t = "string"
        THEN [i \in 1..Len(dimsAttr.kv) |-> dimsAttr.kv[i][2].s]
        ELSE [i \in 1..Len(ShapeOf(arr)) |-> PlaceholderDim(i - 1)]

RECURSIVE CoordCandidates(_, _, _)
\* First loop over the arrays, from arrays[k] on: 1-D arrays of finite size
CoordCandidates(arrays, k, m) ==
    IF k > Len(arrays) THEN m
    ELSE LET shp == ShapeOf(arrays[k])
             m1 == IF Len(shp) = 1 /\ IsFinite(shp[1])
                   THEN MapSet(m, basename(arrays[k].path), shp[1]) ELSE m
         IN  CoordCandidates(arrays, k + 1, m1)

RECURSIVE FirstPassDims(_, _, _, _)
\* dims.forEach((d, i) => { if (!dimSizes.has(d) && isFinite(shape[i])) set })
FirstPassDims(m, dims, shape, i) ==
    IF i > Len(dims) THEN m
    ELSE FirstPassDims(
             IF ~MapHas(m, dims[i]) /\ IsFinite(ElemAt(shape, i))
             THEN MapSet(m, dims[i], shape[i]) ELSE m,
             dims, shape, i + 1)

RECURSIVE FirstPass(_, _, _, _)
FirstPass(m, arrays, dimsByVar, k) ==
    IF k > Len(arrays) THEN m
    ELSE FirstPass(FirstPassDims(m, dimsByVar[k], ShapeOf(arrays[k]), 1),
                   arrays, dimsByVar, k + 1)

RECURSIVE SecondPass(_, _, _, _)
\* Second pass: arrays whose only dimension is named after the array
SecondPass(m, arrays, dimsByVar, k) ==
    IF k > Len(arrays) THEN m
    ELSE LET name == basename(arrays[k].path)
             dims == dimsByVar[k]
             shape == ShapeOf(arrays[k])
         IN  SecondPass(
                 IF Len(dims) = 1 /\ dims[1] = name /\ IsFinite(ElemAt(shape, 1))
                 THEN MapSet(m, name, shape[1]) ELSE m,
                 arrays, dimsByVar, k + 1)

\* The dim -> size table after both passes and the seeding from candidates
DimSizes(arrays, dimsByVar, coordCandidates) ==
    LET m == SecondPass(FirstPass(<<>>, arrays, dimsByVar, 1), arrays, dimsByVar, 1)
    IN  IF Len(m) = 0 /\ Len(coordCandidates) > 0 THEN coordCandidates ELSE m

\* The first entry of dimSizes with the size ax that is not used; <<>> if none
FirstMatch(dimSizes, ax, used) ==
    LET hits == { i \in 1..Len(dimSizes) :
                    dimSizes[i][2] = ax /\ dimSizes[i][1] \notin used }
    IN  IF hits = {} THEN <<>>
        ELSE dimSizes[CHOOSE i \in hits : \A j \in hits : i <= j][1]

RECURSIVE InferAxes(_, _, _, _, _)
\* for (const ax of shape) { ... inferred.push(match || `dim_${inferred.length}`) }
InferAxes(shape, dimSizes, i, inferred, used) ==
    IF i > Len(shape) THEN inferred
    ELSE LET match == FirstMatch(dimSizes, shape[i], used)
         IN  IF match # <<>>
             THEN InferAxes(shape, dimSizes, i + 1, Append(inferred, match),
                            used \cup {match})
             ELSE InferAxes(shape, dimSizes, i + 1,
                            Append(inferred, PlaceholderDim(Len(inferred))), used)

\* The dimension names of arrays[k] after the inference loop
ResolvedDims(arr, dims, dimSizes) ==
    IF Len(dims) = 0 \/ \A i \in 1..Len(dims) : IsPlaceholderDim(dims[i])
    THEN InferAxes(ShapeOf(arr), dimSizes, 1, <<>>, {})
    ELSE dims

\* The last loop over the arrays: coordinates and data variables
IsCoord(v, coordCandidates) ==
    \/ Len(v.shape) = 1 /\ MapHas(coordCandidates, v.name)
    \/ Len(v.dims) = 1 /\ (v.dims[1] = v.name \/ MapHas(coordCandidates, v.name))

\* allDims: the names inferArrayDims gave (first loop), the names the
\* inference loop gave, and the candidates' names when there are none
AllDims(vars1, dims0, coordCandidates) ==
    LET seen == UNION { { dims0[k][i] : i \in 1..Len(dims0[k]) } : k \in 1..Len(dims0) }
                \cup UNION { { vars1[k].dims[i] : i \in 1..Len(vars1[k].dims) }
                             : k \in 1..Len(vars1) }
    IN  IF seen = {} /\ Len(coordCandidates) > 0
        THEN { coordCandidates[i][1] : i \in 1..Len(coordCandidates) }
        ELSE seen

Classify(vars1, dims0, coordCandidates, dimSizes) ==
    [kind |-> "group", dimSizes |-> dimSizes,
     dimList |-> AllDims(vars1, dims0, coordCandidates),
     coords |-> Pick(vars1, { k \in 1..Len(vars1) : IsCoord(vars1[k], coordCandidates) }, 1),
     dataVars |-> Pick(vars1, { k \in 1..Len(vars1) : ~IsCoord(vars1[k], coordCandidates) }, 1)]

\* The loop that names the axes of the arrays without dimension names
ResolveAll(arrays, dims0, coordCandidates, dimSizes) ==
    Classify([k \in 1..Len(arrays) |->
                 [name |-> basename(arrays[k].path),
                  dims |-> ResolvedDims(arrays[k], dims0[k], dimSizes),
                  shape |-> ShapeOf(arrays[k])]],
             dims0, coordCandidates, dimSizes)

GroupView(arrays, dims0, coordCandidates) ==
    ResolveAll(arrays, dims0, coordCandidates, DimSizes(arrays, dims0, coordCandidates))

InferAll(arrays) ==
    GroupView(arrays, [k \in 1..Len(arrays) |-> inferArrayDims(arrays[k])],
              CoordCandidates(arrays, 1, <<>>))

\* renderGroupLikeXarray(tree, grpNode): the dimension table and the two
\* lists of variables it writes to the slide
renderGroupLikeXarray(tree, grpNode) == InferAll(collectArrays(tree, grpNode))

\* The slide before anything is rendered, and for a node that is no group
NoSlide ==
    [kind |-> "none", dimSizes |-> <<>>, dimList |-> {}, coords |-> <<>>, dataVars |-> <<>>]

(***************************************************************************)
(* Attribute aggregation (renderAggregatedGroupAttrs, deepEqualSimple)     *)
(***************************************************************************)
Quote == "\""
Comma == ","
Colon == ":"

RECURSIVE Stringify(_)
RECURSIVE StringifyItems(_, _, _)
\* The pairs kv[i..] of an array (asObject = FALSE) or of an object, joined
\* by commas
StringifyItems(kv, i, asObject) ==
    IF i > Len(kv) THEN <<>>
    ELSE (IF i > 1 THEN <<Comma>> ELSE <<>>)
         \o (IF asObject THEN <<Quote>> \o kv[i][1] \o <<Quote, Colon>> ELSE <<>>)
         \o Stringify(kv[i][2])
         \o StringifyItems(kv, i + 1, asObject)

\* JSON.stringify(v) for a value read from JSON
Stringify(v) ==
    CASE v.t = "string" -> <<Quote>> \o v.s \o <<Quote>>
      [] v.t = "number" -> v.s
      [] v.t = "boolean" -> IF v.s = <<"1">> THEN <<"true">> ELSE <<"false">>
      [] v.t = "null" -> <<"null">>
      [] v.t = "array" -> <<"[">> \o StringifyItems(v.kv, 1, FALSE) \o <<"]">>
      [] v.t = "object" -> <<"{">> \o StringifyItems(v.kv, 1, TRUE) \o <<"}">>
      [] OTHER -> <<"undefined">>

\* typeof v
TypeOf(v) == IF v.t \in {"object", "array", "null"} THEN "object" ELSE v.t

\* a === b for two values read from different places of a JSON document:
\* primitives compare by value, two objects are never the same object
StrictEquals(a, b) == a.t \notin {"object", "array"} /\ a = b

\* deepEqualSimple(a, b)
deepEqualSimple(a, b) ==
    IF StrictEquals(a, b) THEN TRUE
    ELSE IF TypeOf(a) # TypeOf(b) THEN FALSE
    ELSE IF Truthy(a) /\ Truthy(b) /\ TypeOf(a) = "object"
         THEN Stringify(a) = Stringify(b)
    ELSE FALSE

\* p.startsWith(prefix)
StartsWith(p, prefix) == Len(p) >= Len(prefix) /\ SubSeq(p, 1, Len(prefix)) = prefix

\* groupNodes: the Group nodes at or below grpNode.path, in the order of
\* tree.pathMap.keys()
GroupMembers(tree, grpNode) ==
    LET root == normalizePath(grpNode.path)
        map == tree.pathMap
    IN  Pick(map, { i \in 1..Len(map) :
                      /\ map[i].path = root \/ StartsWith(map[i].path, root \o <<Slash>>)
                      /\ map[i].type = "group" }, 1)

RECURSIVE AllKeys(_, _, _)
\* allKeys: the attribute keys of groupNodes[i..] added to the set acc
AllKeys(groupNodes, i, acc) ==
    IF i > Len(groupNodes) THEN acc
    ELSE LET a == ObjectEntries(OrEmptyObj(groupNodes[i].attrs))
         IN  AllKeys(groupNodes, i + 1, acc \cup { a[j][1] : j \in 1..Len(a) })

RECURSIVE SortKeys(_)
\* Array.from(allKeys).sort(): ascending by code unit
SortKeys(keys) ==
    IF keys = {} THEN <<>>
    ELSE LET least == CHOOSE k \in keys : \A o \in keys \ {k} : LexLess(k, o)
         IN  <<least>> \o SortKeys(keys \ {least})

\* (n.attrs || {})[k]
AttrOf(n, k) == GetProp(OrEmptyObj(n.attrs), k)

Varies == <<"(varies)">>

\* The text shown for a value all groups agree on
DisplayOf(firstVal) ==
    IF firstVal.t \in {"undefined", "null"} THEN <<"null">>
    ELSE IF TypeOf(firstVal) = "object" THEN Stringify(firstVal)
    ELSE IF firstVal.t = "boolean" THEN Stringify(firstVal)
    ELSE firstVal.s

\* One row of the panel: the key and the text shown for it
AggRow(groupNodes, k) ==
    LET firstVal == AttrOf(groupNodes[1], k)
        same == \A i \in 2..Len(groupNodes) :
                    deepEqualSimple(firstVal, AttrOf(groupNodes[i], k))
    IN  [key |-> k, display |-> IF same THEN DisplayOf(firstVal) ELSE Varies]

\* renderAggregatedGroupAttrs(tree, grpNode): the groups it works over and
\* the rows it writes
renderAggregatedGroupAttrs(tree, grpNode) ==
    LET groupNodes == GroupMembers(tree, grpNode)
        keys == SortKeys(AllKeys(groupNodes, 1, {}))
    IN  IF Len(groupNodes) = 0
        THEN [hidden |-> FALSE, members |-> <<>>, rows |-> <<>>]
        ELSE [hidden |-> FALSE,
              members |-> [i \in 1..Len(groupNodes) |-> groupNodes[i].path],
              rows |-> [i \in 1..Len(keys) |-> AggRow(groupNodes, keys[i])]]

\* hasMultipleSubgroups(tree, grpNode)
hasMultipleSubgroups(tree, grpNode) ==
    Cardinality({ i \in 1..Len(grpNode.children) :
                    IsGroupAt(tree, join(grpNode.path, grpNode.children[i])) }) > 1

\* agg.hidden = true; agg.innerHTML = ""
HiddenAgg == [hidden |-> TRUE, members |-> <<>>, rows |-> <<>>]

\* renderActive()
renderActive(w) ==
    LET tree == w.state.tree
        activePath == w.state.activePath
    IN  IF tree.null
        THEN renderSidebar([w EXCEPT !.dom.navlinks = {}, !.dom.slide = NoSlide])
        ELSE IF ~HasNode(tree, activePath)
             THEN renderSidebar([w EXCEPT !.dom.navlinks = {}, !.dom.slide = NoSlide])
        ELSE IF NodeAt(tree, activePath).type = "array"
             THEN [w EXCEPT !.dom.navlinks = {}, !.dom.slide = NoSlide,
                            !.dom.agg = HiddenAgg]
        ELSE LET node == NodeAt(tree, activePath)
             IN  renderSidebar(
                     [w EXCEPT !.dom.navlinks = GroupNavLinks(tree, node),
                               !.dom.slide = renderGroupLikeXarray(tree, node),
                               !.dom.agg = IF hasMultipleSubgroups(tree, node)
                                           THEN renderAggregatedGroupAttrs(tree, node)
                                           ELSE HiddenAgg])

(***************************************************************************)
(* location.hash                                                           *)
(***************************************************************************)
Bar == "|"
Space == " "
PCT20 == "%20"

\* encodeURI / decodeURI: of the characters of the model only the blank is
\* escaped (letters, "/", "_", "." and ":" are in encodeURI's unescaped set)
encodeURI(str) == [i \in 1..Len(str) |-> IF str[i] = Space THEN PCT20 ELSE str[i]]
decodeURI(str) == [i \in 1..Len(str) |-> IF str[i] = PCT20 THEN Space ELSE str[i]]

\* `${encodeURI(state.baseUrl)}|${encodeURI(state.activePath)}`
HashOf(st) == encodeURI(st.baseUrl) \o <<Bar>> \o encodeURI(st.activePath)

\* if (location.hash.slice(1) !== hash) location.hash = hash;
\* a changed fragment queues one hashchange event
SetHash(w, h) ==
    IF w.hash # h THEN [w EXCEPT !.hash = h, !.hashEvents = @ + 1] ELSE w

\* const [storeEnc, pathEnc] = raw.split("|"), decoded with their defaults
HashStore(raw) ==
    LET parts == Split(raw, Bar)
    IN  IF parts[1] # <<>> THEN decodeURI(parts[1]) ELSE <<>>
HashPath(raw) ==
    LET parts == Split(raw, Bar)
    IN  IF Len(parts) >= 2 /\ parts[2] # <<>> THEN decodeURI(parts[2]) ELSE RootPath

(***************************************************************************)
(* setActive, handleKeydown                                                *)
(***************************************************************************)
\* if (state.baseUrl) { ... if (location.hash.slice(1) !== hash) location.hash = hash; }
UpdateHash(w) == IF w.state.baseUrl # <<>> THEN SetHash(w, HashOf(w.state)) ELSE w

\* Mutation of setActive: an array is made the active path like a group
setActiveAnyType(w, path) ==
    LET tree == w.state.tree
        hasNode == ~tree.null /\ HasNode(tree, path)
        w1 == [w EXCEPT !.state.activePath = IF hasNode THEN path ELSE dirname(path),
                        !.state.highlightVarPath = <<>>]
    IN  UpdateHash(renderActive(w1))

setActive(w, path) ==
    LET tree == w.state.tree
        hasNode == ~tree.null /\ HasNode(tree, path)
        targetPath == IF hasNode /\ NodeAt(tree, path).type = "group"
                      THEN path ELSE dirname(path)
        highlight == IF hasNode /\ NodeAt(tree, path).type = "array"
                     THEN NodeAt(tree, path).path ELSE <<>>
        w1 == [w EXCEPT !.state.activePath = targetPath,
                        !.state.highlightVarPath = highlight]
    IN  UpdateHash(renderActive(w1))

Keys == {"ArrowUp", "ArrowDown", "ArrowLeft", "ArrowRight"}

\* Mutation of NextIndex: the index is clamped instead of wrapping around
NextIndexClamped(index, delta, n) ==
    IF index + delta < 0 THEN 0
    ELSE IF index + delta > n - 1 THEN n - 1
    ELSE index + delta

\* const nextIdx = (index + delta + list.length) % list.length
NextIndex(index, delta, n) == (index + delta + n) % n

\* Mutation of KeyTarget: ArrowRight moves two siblings on
KeyTargetSkipping(w, key) ==
    CASE key = "ArrowUp" ->
            LET parent == dirname(w.state.activePath)
            IN  IF parent # <<>> /\ parent # w.state.activePath THEN parent ELSE <<>>
      [] key = "ArrowDown" -> firstChildOf(w.state.tree, w.state.activePath)
      [] key \in {"ArrowLeft", "ArrowRight"} ->
            LET sib == siblingsOf(w.state.tree, w.state.activePath)
                n == Len(sib.list)
                delta == IF key = "ArrowLeft" THEN -1 ELSE 2
            IN  IF n = 0 THEN <<>>
                ELSE IF sib.index < 0 THEN <<>>
                ELSE join(sib.parent, sib.list[NextIndex(sib.index, delta, n) + 1])
      [] OTHER -> <<>>

\* The path a key of handleKeydown navigates to; <<>> when the key does nothing
KeyTarget(w, key) ==
    CASE key = "ArrowUp" ->
            LET parent == dirname(w.state.activePath)
            IN  IF parent # <<>> /\ parent # w.state.activePath THEN parent ELSE <<>>
      [] key = "ArrowDown" -> firstChildOf(w.state.tree, w.state.activePath)
      [] key \in {"ArrowLeft", "ArrowRight"} ->
            LET sib == siblingsOf(w.state.tree, w.state.activePath)
                n == Len(sib.list)
                delta == IF key = "ArrowLeft" THEN -1 ELSE 1
            IN  IF n = 0 THEN <<>>
                ELSE IF sib.index < 0 THEN <<>>
                ELSE join(sib.parent, sib.list[NextIndex(sib.index, delta, n) + 1])
      [] OTHER -> <<>>

\* The call of setActive each branch ends with, when it found a target
GoTo(w, target) == IF target # <<>> THEN setActive(w, target) ELSE w

handleKeydown(w, key) ==
    IF w.state.tree.null THEN w ELSE GoTo(w, KeyTarget(w, key))

(***************************************************************************)
(* Naming spec (applyNamingSpecIfAny, onApplyNamingSpec)                   *)
(***************************************************************************)
Underscore == "_"

RECURSIVE TrimLeft(_)
TrimLeft(str) ==
    IF str # <<>> /\ Head(str) = Space THEN TrimLeft(Tail(str)) ELSE str
RECURSIVE TrimRight(_)
TrimRight(str) ==
    IF str # <<>> /\ Last(str) = Space THEN TrimRight(Front(str)) ELSE str
\* String.prototype.trim
Trim(str) == TrimRight(TrimLeft(str))

\* Mutation of SetProp: an existing key keeps its value
SetPropKeep(obj, key, value) ==
    IF \E i \in 1..Len(obj.kv) : obj.kv[i][1] = key
    THEN obj
    ELSE [obj EXCEPT !.kv = Append(@, <<key, value>>)]

\* obj[key] = value: an existing key keeps its position, a new one is appended
SetProp(obj, key, value) ==
    IF \E i \in 1..Len(obj.kv) : obj.kv[i][1] = key
    THEN [obj EXCEPT !.kv = [i \in 1..Len(obj.kv) |->
                                IF obj.kv[i][1] = key THEN <<key, value>>
                                ELSE obj.kv[i]]]
    ELSE [obj EXCEPT !.kv = Append(@, <<key, value>>)]

RECURSIVE SetProps(_, _)
\* for (const [k, v] of Object.entries(attrs)) node.attrs[k] = v
SetProps(obj, pairs) ==
    IF pairs = <<>> THEN obj
    ELSE SetProps(SetProp(obj, Head(pairs)[1], Head(pairs)[2]), Tail(pairs))

\* spec.split('_').filter(Boolean)
SpecKeys(spec) == FilterNonEmpty(Split(spec, Underscore))

\* record[keys[i]] = parts[i] for i < keys.length
NamingRecord(keys, parts) ==
    SetProps(EmptyObj, [i \in 1..Len(keys) |-> <<keys[i], JStr(parts[i])>>])

\* Paths of the children of grp kept by .filter(n => n && n.type === 'group')
GroupChildPaths(tree, grp) ==
    LET kept == SelectSeq(grp.children,
                          LAMBDA name : IsGroupAt(tree, join(grp.path, name)))
    IN  [i \in 1..Len(kept) |-> join(grp.path, kept[i])]

\* Mutation of ApplyNamingTo: the children before the first mismatch are
\* assigned
ApplyNamingPartial(tree, grp, keys) ==
    LET children == GroupChildPaths(tree, grp)
        parts(c) == Split(basename(c), Underscore)
        ok(i) == \A j \in 1..i : Len(parts(children[j])) = Len(keys)
    IN  [tree EXCEPT !.pathMap =
            [j \in 1..Len(tree.pathMap) |->
                LET node == tree.pathMap[j]
                IN  IF \E i \in 1..Len(children) : children[i] = node.path /\ ok(i)
                    THEN [node EXCEPT !.attrs =
                            SetProps(IF Truthy(node.attrs) /\ TypeofObject(node.attrs)
                                     THEN node.attrs ELSE EmptyObj,
                                     NamingRecord(keys, parts(node.path)).kv)]
                    ELSE node]]

\* The two loops shared by applyNamingSpecIfAny and onApplyNamingSpec:
\* parse every child, return unchanged on the first mismatch, else assign.
ApplyNamingTo(tree, grp, keys) ==
    LET children == GroupChildPaths(tree, grp)
        parts(c) == Split(basename(c), Underscore)
    IN  IF children = <<>> THEN tree
        ELSE IF \E i \in 1..Len(children) : Len(parts(children[i])) # Len(keys)
             THEN tree
        ELSE [tree EXCEPT !.pathMap =
                [j \in 1..Len(tree.pathMap) |->
                    LET node == tree.pathMap[j]
                    IN  IF Includes(children, node.path)
                        THEN [node EXCEPT !.attrs =
                                SetProps(IF Truthy(node.attrs) /\ TypeofObject(node.attrs)
                                         THEN node.attrs ELSE EmptyObj,
                                         NamingRecord(keys, parts(node.path)).kv)]
                        ELSE node]]

\* applyNamingSpecIfAny(): the target is the root group
applyNamingSpecIfAny(tree, input) ==
    LET spec == Trim(input)
        keys == SpecKeys(spec)
    IN  IF spec = <<>> \/ tree.null THEN tree
        ELSE IF keys = <<>> THEN tree
        ELSE IF ~IsGroupAt(tree, RootPath) THEN tree
        ELSE ApplyNamingTo(tree, NodeAt(tree, RootPath), keys)

\* onApplyNamingSpec(): the target is the active node
onApplyNamingSpec(w, input) ==
    LET spec == Trim(input)
        keys == SpecKeys(spec)
        tree == w.state.tree
    IN  IF tree.null THEN w
        ELSE IF spec = <<>> THEN w
        ELSE IF keys = <<>> THEN w
        ELSE IF ~IsGroupAt(tree, w.state.activePath) THEN w
        ELSE LET grp == NodeAt(tree, w.state.activePath)
                 children == GroupChildPaths(tree, grp)
             IN  IF children = <<>> THEN w
                 ELSE IF \E i \in 1..Len(children) :
                            Len(Split(basename(children[i]), Underscore)) # Len(keys)
                      THEN w
                 ELSE renderActive([w EXCEPT !.state.tree = ApplyNamingTo(tree, grp, keys)])

(***************************************************************************)
(* Loading a store (loadZmetadata, loadStore, onLoadClick)                 *)
(***************************************************************************)
ZARR == ".zarr"

\* deriveBaseFromUrl(url)
deriveBaseFromUrl(url) ==
    IF url = <<>> THEN <<>>
    ELSE IF \E i \in 1..Len(url) : url[i] = ZARR
         THEN normalizeBase(SubSeq(url, 1, CHOOSE i \in 1..Len(url) :
                              url[i] = ZARR /\ \A j \in 1..(i - 1) : url[j] # ZARR))
    ELSE normalizeBase(url)

\* loadZmetadata throws ".zmetadata missing 'metadata' key"
Malformed(jm) ==
    ~Truthy(jm) \/ ~TypeofObject(jm) \/ ~Truthy(GetProp(jm, <<"metadata">>))

\* location.hash = hash, when it differs (end of loadStore's try block)
WriteHash(w) == SetHash(w, HashOf(w.state))

\* The continuation of loadStore(baseUrl) after a successful await
loadStoreOk(w, baseUrl, consolidated, input) ==
    LET w1 == [w EXCEPT !.state.baseUrl = normalizeBase(baseUrl),
                        !.state.tree = applyNamingSpecIfAny(buildTree(consolidated), input),
                        !.state.activePath = RootPath]
    IN  WriteHash(renderActive(w1))

\* Mutation of loadStoreCatch: a failed load drops the tree
loadStoreCatchDropsTree(w) ==
    [w EXCEPT !.dom.navlinks = {}, !.dom.slide = NoSlide, !.state.tree = NullTree]

\* The catch block of loadStore: the slide is replaced by the error message
loadStoreCatch(w) == [w EXCEPT !.dom.navlinks = {}, !.dom.slide = NoSlide]

\* .then(() => { if (path) { state.activePath = normalizePath(path); renderActive(); } })
thenSetPath(w, path) ==
    IF path # <<>>
    THEN renderActive([w EXCEPT !.state.activePath = normalizePath(path)])
    ELSE w

\* The hashchange listener registered by init(); start is the load it begins
hashchange(w) ==
    LET raw == w.hash
        store == HashStore(raw)
        path == HashPath(raw)
    IN  IF raw = <<>> THEN [w |-> w, start |-> {}]
        ELSE IF store # <<>> /\ store # w.state.baseUrl
             THEN [w |-> w, start |-> {[url |-> store, path |-> path]}]
        ELSE IF path # <<>> /\ ~w.state.tree.null
             THEN [w |-> renderActive([w EXCEPT !.state.activePath = normalizePath(path)]),
                   start |-> {}]
        ELSE [w |-> w, start |-> {}]

(***************************************************************************)
(* Bounds and the inputs drawn from them                                   *)
(***************************************************************************)
MaxInflight == 2     \* loadStore calls awaiting their fetch at one time
MaxHashEvents == 1   \* hashchange events queued and not yet dispatched
NumNames == 3        \* distinct segment names in generated manifest keys
MaxDepth == 3        \* longest path prefix of a generated manifest key
MaxEntries == 3      \* entries of a generated manifest
NavDepth == 2        \* longest path prefix in the navigation specification
MaxArrays == 2       \* arrays in the group of the dimension specification
MaxRawLen == 4       \* characters of a raw path string
MaxBaseLen == 2      \* characters of a base name

\* Store base URLs
StoreU == <<"u", ZARR>>
StoreV == <<"v", ZARR>>
StoreW == <<"w", ZARR>>

\* A fetched document { "metadata": { key: value, ... } }
Consolidated(entries) == JObj(<< <<<<"metadata">>, JObj(entries)>> >>)

SomeAttrs == JObj(<< <<<<"k">>, JStr(<<"v">>)>> >>)
SomeZarray == JObj(<< <<<<"dtype">>, JStr(<<"f">>)>> >>)

\* "<prefix>.zgroup" etc.; the prefix is a slash-joined path ending in "/"
Key(segs, marker) ==
    Concat([i \in 1..Len(segs) |-> segs[i] \o <<Slash>>]) \o <<marker>>

ValueOf(marker) ==
    CASE marker = ZGROUP -> EmptyObj
      [] marker = ZARRAY -> SomeZarray
      [] OTHER -> SomeAttrs

\* The two stores of the viewer specification.  U: an array /a that has a
\* group below it, a group /c holding an array and a group, and two more
\* top-level groups; V: a store whose root is declared an array.
DocU ==
    Consolidated(<<
        <<Key(<<>>, ZGROUP), EmptyObj>>,
        <<Key(<< <<"a">> >>, ZARRAY), SomeZarray>>,
        <<Key(<< <<"a">>, <<"b">> >>, ZGROUP), EmptyObj>>,
        <<Key(<< <<"c">>, <<"d">> >>, ZARRAY), SomeZarray>>,
        <<Key(<< <<"c">>, <<"e">> >>, ZATTRS), SomeAttrs>>,
        <<Key(<< <<"f">> >>, ZGROUP), EmptyObj>> >>)
DocV ==
    Consolidated(<<
        <<Key(<<>>, ZARRAY), SomeZarray>>,
        <<Key(<< <<"c">> >>, ZARRAY), SomeZarray>> >>)
\* a document without the "metadata" key
DocW == JObj(<< <<<<"zarr_consolidated_format">>, JTrue>> >>)

ViewerRemote == (StoreU :> DocU) @@ (StoreV :> DocV) @@ (StoreW :> DocW)

\* Generated manifests: every sequence of at most n entries with distinct
\* keys, the path prefix of a key descending along the first name
SegNames == {<<Alphabet[i + 1]>> : i \in 1..NumNames}
SpineSegs(depth) ==
    {<<>>} \cup
    UNION { { [i \in 1..d |-> IF i < d THEN <<Alphabet[2]>> ELSE n] : n \in SegNames }
            : d \in 1..depth }
GenEntries(depth, markers) ==
    { <<Key(segs, m), ValueOf(m)>> : segs \in SpineSegs(depth), m \in markers }
RECURSIVE EntrySeqs(_, _)
EntrySeqs(entries, n) ==
    IF n = 0 THEN {<<>>}
    ELSE LET shorter == EntrySeqs(entries, n - 1)
         IN  shorter \cup
             { Append(es, e) : es \in { x \in shorter : Len(x) = n - 1 },
                               e \in entries }
DistinctKeys(es) == \A i, j \in 1..Len(es) : i # j => es[i][1] # es[j][1]

\* Manifests of the builder specification
Manifests ==
    { es \in EntrySeqs(GenEntries(MaxDepth, Markers), MaxEntries) : DistinctKeys(es) }
\* Order of manifest keys as a store's consolidation step writes them
\* (sorted by code unit: "." before "/" before the characters of names)
KeyRank(c) ==
    CASE c = ZARRAY -> 1
      [] c = ZATTRS -> 2
      [] c = ZGROUP -> 3
      [] c = Slash -> 4
      [] OTHER -> 4 + CharRank(c)
RECURSIVE KeyLess(_, _)
KeyLess(a, b) ==
    IF b = <<>> THEN FALSE
    ELSE IF a = <<>> THEN TRUE
    ELSE IF KeyRank(Head(a)) # KeyRank(Head(b))
         THEN KeyRank(Head(a)) < KeyRank(Head(b))
    ELSE KeyLess(Tail(a), Tail(b))
SortedKeys(es) == \A i \in 1..(Len(es) - 1) : KeyLess(es[i][1], es[i + 1][1])

\* Manifests of the navigation specification: group and array markers only,
\* keys in sorted order
NavManifests ==
    { es \in EntrySeqs(GenEntries(NavDepth, {ZGROUP, ZARRAY}), MaxEntries) :
        SortedKeys(es) }

(***************************************************************************)
(* Actions                                                                 *)
(***************************************************************************)
World == [state |-> state, hash |-> hash, hashEvents |-> hashEvents, dom |-> dom]

Commit(w) ==
    /\ w.hashEvents <= MaxHashEvents
    /\ state' = w.state
    /\ hash' = w.hash
    /\ hashEvents' = w.hashEvents
    /\ dom' = w.dom

Event(op, arg, path) == [op |-> op, arg |-> arg, path |-> path]

\* const state = {...} (line 19), then init() with the page's initial hash
InitWith(r, initial) ==
    /\ remote = r
    /\ state = [baseUrl |-> <<>>, tree |-> NullTree,
                activePath |-> RootPath, highlightVarPath |-> <<>>]
    /\ hash = initial
    /\ hashEvents = 0
    /\ dom = [sidebar |-> {}, navlinks |-> {}, slide |-> NoSlide, agg |-> HiddenAgg]
    /\ inflight = IF initial # <<>> /\ HashStore(initial) # <<>>
                  THEN {[url |-> HashStore(initial), path |-> HashPath(initial)]}
                  ELSE {}
    /\ namingSpec = <<>>
    /\ ev = Event("init", <<>>, <<>>)

\* onLoadClick with the text of #zarrUrl
LoadClick(entered) ==
    LET baseUrl == deriveBaseFromUrl(Trim(entered))
    IN  /\ baseUrl # <<>>
        /\ Cardinality(inflight \cup {[url |-> baseUrl, path |-> <<>>]}) <= MaxInflight
        /\ inflight' = inflight \cup {[url |-> baseUrl, path |-> <<>>]}
        /\ ev' = Event("loadClick", <<>>, <<>>)
        /\ UNCHANGED <<remote, state, hash, hashEvents, dom, namingSpec>>

\* A pending loadStore whose fetch returned a well-formed document, run to
\* its end together with the .then callback of its caller
LoadOk(l) ==
    LET u == normalizeBase(l.url)
    IN  /\ l \in inflight
        /\ u \in DOMAIN remote
        /\ ~Malformed(remote[u])
        /\ Commit(thenSetPath(loadStoreOk(World, l.url, remote[u], namingSpec), l.path))
        /\ inflight' = inflight \ {l}
        /\ ev' = Event("loadOk", l.url, l.path)
        /\ UNCHANGED <<remote, namingSpec>>

\* A pending loadStore that throws: the fetch fails (network or HTTP status,
\* possible for any store) or the document is malformed
LoadFail(l) ==
        /\ l \in inflight
        /\ Commit(thenSetPath(loadStoreCatch(World), l.path))
        /\ inflight' = inflight \ {l}
        /\ ev' = Event("loadFail", l.url, l.path)
        /\ UNCHANGED <<remote, namingSpec>>

\* The fragment of the page URL is replaced from outside (a pasted link)
HashJump(h) ==
    /\ h # hash
    /\ Commit(SetHash(World, h))
    /\ ev' = Event("hashJump", <<>>, <<>>)
    /\ UNCHANGED <<remote, inflight, namingSpec>>

\* A queued hashchange event is dispatched
HashChange ==
    LET r == hashchange(World)
        w == [r.w EXCEPT !.hashEvents = @ - 1]
    IN  /\ hashEvents > 0
        /\ Cardinality(inflight \cup r.start) <= MaxInflight
        /\ Commit(w)
        /\ inflight' = inflight \cup r.start
        /\ ev' = Event("hashchange", <<>>, <<>>)
        /\ UNCHANGED <<remote, namingSpec>>

KeyDown(key) ==
    /\ Commit(handleKeydown(World, key))
    /\ ev' = Event(key, state.activePath, <<>>)
    /\ UNCHANGED <<remote, inflight, namingSpec>>

\* A click on a sidebar anchor or on a group link of the slide
Click(p) ==
    /\ p \in dom.sidebar \cup dom.navlinks
    /\ Commit(setActive(World, p))
    /\ ev' = Event("click", p, <<>>)
    /\ UNCHANGED <<remote, inflight, namingSpec>>

\* The user edits the #namingSpec input
TypeNamingSpec(text) ==
    /\ text # namingSpec
    /\ namingSpec' = text
    /\ ev' = Event("typeNamingSpec", text, <<>>)
    /\ UNCHANGED <<remote, state, hash, hashEvents, dom, inflight>>

\* A click on #applyNamingBtn
ApplyNamingClick ==
    /\ Commit(onApplyNamingSpec(World, namingSpec))
    /\ ev' = Event("applyNaming", namingSpec, <<>>)
    /\ UNCHANGED <<remote, inflight, namingSpec>>

(***************************************************************************)
(* Specifications                                                          *)
(***************************************************************************)
\* What the user of the viewer specification types, pastes and clicks
EnteredUrls == {StoreU, StoreV \o <<Slash>>, StoreW}
\* Deep links: a group of store U that lies below an array, and a path that
\* store V does not hold
JumpLinks == { <<StoreU, <<Slash, "a", Slash, "b">> >>, <<StoreV, <<Slash, "a">> >> }
JumpHashes == { encodeURI(l[1]) \o <<Bar>> \o encodeURI(l[2]) : l \in JumpLinks }
NamingSpecs == { <<>>, <<"k">> }

Init == \E initial \in {<<>>} \cup JumpHashes : InitWith(ViewerRemote, initial)

Next ==
    \/ \E entered \in EnteredUrls : LoadClick(entered)
    \/ \E l \in inflight : LoadOk(l)
    \/ \E l \in inflight : LoadFail(l)
    \/ \E h \in JumpHashes : HashJump(h)
    \/ HashChange
    \/ \E key \in Keys : KeyDown(key)
    \/ \E p \in dom.sidebar \cup dom.navlinks : Click(p)

Spec == Init /\ [][Next]_vars

\* The tree builder on its own: the page is opened on a link to store U,
\* which serves a generated manifest, and the load completes.
InitBuild ==
    \E m \in Manifests :
        InitWith(StoreU :> Consolidated(m), HashOf([baseUrl |-> StoreU, activePath |-> RootPath]))

NextBuild == \E l \in inflight : LoadOk(l)

SpecBuild == InitBuild /\ [][NextBuild]_vars

\* Navigation inside one loaded store by keys and clicks.
InitNav ==
    \E m \in NavManifests :
        InitWith(StoreU :> Consolidated(m), HashOf([baseUrl |-> StoreU, activePath |-> RootPath]))

NextNav ==
    \/ \E l \in inflight : LoadOk(l)
    \/ HashChange
    \/ \E key \in Keys : KeyDown(key)
    \/ \E p \in dom.sidebar \cup dom.navlinks : Click(p)

SpecNav == InitNav /\ [][NextNav]_vars

\* Loading documents of every shape from one store: the "metadata" key
\* absent, null, a string, a number, a boolean, or an object.
DocOf(metadata) ==
    JObj(<< <<<<"zarr_consolidated_format">>, JNum(1)>>, <<<<"metadata">>, metadata>> >>)
MetaObjects ==
    { EmptyObj,
      JObj(<< <<Key(<<>>, ZGROUP), EmptyObj>>,
              <<Key(<< <<"a">> >>, ZGROUP), EmptyObj>>,
              <<Key(<< <<"b">> >>, ZGROUP), EmptyObj>> >>) }
MetaValues ==
    { JNull, JTrue, JFalse, JNum(0), JNum(1), JStr(<<>>), JStr(<<"a", "b">>) }
MetaDocs ==
    {DocW} \cup { DocOf(m) : m \in MetaValues \cup MetaObjects }

InitMeta ==
    \E d \in MetaDocs :
        \E initial \in {<<>>, HashOf([baseUrl |-> StoreU, activePath |-> <<Slash, "a">>])} :
            InitWith(StoreU :> d, initial)

NextMeta ==
    \/ \E entered \in {StoreU, StoreU \o <<Slash>>} : LoadClick(entered)
    \/ \E l \in inflight : LoadOk(l)
    \/ \E l \in inflight : LoadFail(l)
    \/ HashChange
    \/ \E key \in Keys : KeyDown(key)
    \/ \E p \in dom.sidebar \cup dom.navlinks : Click(p)

SpecMeta == InitMeta /\ [][NextMeta]_vars

\* Dimension inference: the root group holds up to MaxArrays arrays, each
\* with a shape and possibly an _ARRAY_DIMENSIONS attribute.
DimNames == { <<"a">>, <<"c">>, <<"e">> }
DimShapes ==
    { <<JNum(2)>>, <<JNum(3)>>, <<JNum(2), JNum(3)>>, <<JNum(2), JNum(2)>>,
      <<JNum(3), JNum(3)>>, <<JNull>> }
\* The _ARRAY_DIMENSIONS lists an array named n may carry
DimLists(n) == { <<n>>, << <<"c">> >>, << <<"c">>, <<"e">> >>, <<>> }
\* The entries that declare array n: its .zarray and, with dims, its .zattrs
ArrayEntries(n, shape, withDims, dims) ==
    << <<Key(<<n>>, ZARRAY), JObj(<< <<<<SHAPE>>, JArr(shape)>> >>)>> >>
    \o (IF withDims
        THEN << <<Key(<<n>>, ZATTRS),
                  JObj(<< <<<<ARRAY_DIMENSIONS>>,
                            JArr([i \in 1..Len(dims) |-> JStr(dims[i])])>> >>)>> >>
        ELSE <<>>)
ArrayDecls(n) ==
    { ArrayEntries(n, shape, FALSE, <<>>) : shape \in DimShapes }
    \cup { ArrayEntries(n, d[1], TRUE, d[2]) : d \in DimShapes \X DimLists(n) }
RECURSIVE DimManifests(_, _)
\* Manifests declaring at most k arrays with names from the set names, the
\* keys in sorted order
DimManifests(names, k) ==
    IF k = 0 \/ names = {} THEN { <<>> }
    ELSE LET n == CHOOSE x \in names : \A y \in names \ {x} : LexLess(x, y)
             rest == DimManifests(names \ {n}, k)
             fewer == DimManifests(names \ {n}, k - 1)
         IN  rest \cup { d \o m : d \in ArrayDecls(n), m \in fewer }

InitDims ==
    \E m \in DimManifests(DimNames, MaxArrays) :
        InitWith(StoreU :> Consolidated(<< <<Key(<<>>, ZGROUP), EmptyObj>> >> \o m),
                 HashOf([baseUrl |-> StoreU, activePath |-> RootPath]))

NextDims == \E l \in inflight : LoadOk(l)

SpecDims == InitDims /\ [][NextDims]_vars

\* Attribute aggregation: the root has the child groups /a and /ab; /a has
\* the child groups /a/a, /a/b and /a/d and the array /a/c.  The attributes
\* of /a/a and /a/b are drawn from AggAttrs, /a/d repeats one of them, and
\* /a has no attributes or those of /a/a.
AggValues ==
    { JNum(1), JNum(2), JNull,
      JArr(<<JNum(1), JNum(2)>>), JArr(<<JNum(2), JNum(1)>>),
      JObj(<< <<<<"a">>, JNum(1)>>, <<<<"b">>, JNum(2)>> >>),
      JObj(<< <<<<"b">>, JNum(2)>>, <<<<"a">>, JNum(1)>> >>) }
UnitsK == << <<<<"g">>, JStr(<<"K">>)>> >>
\* Attribute objects: key f absent or one of AggValues, key g absent or "K"
AggAttrs ==
    { JObj(f \o g) : f \in {<<>>} \cup { << <<<<"f">>, v>> >> : v \in AggValues },
                     g \in {<<>>, UnitsK} }
AggManifest(p, a1, a2, d) ==
    << <<Key(<<>>, ZGROUP), EmptyObj>> >>
    \o (IF p = EmptyObj THEN << <<Key(<< <<"a">> >>, ZGROUP), EmptyObj>> >>
        ELSE << <<Key(<< <<"a">> >>, ZATTRS), p>> >>)
    \o << <<Key(<< <<"a">>, <<"a">> >>, ZATTRS), a1>>,
          <<Key(<< <<"a">>, <<"b">> >>, ZATTRS), a2>>,
          <<Key(<< <<"a">>, <<"c">> >>, ZARRAY), SomeZarray>>,
          <<Key(<< <<"a">>, <<"c">> >>, ZATTRS), JObj(<< <<<<"h">>, JNum(1)>> >>)>>,
          <<Key(<< <<"a">>, <<"d">> >>, ZATTRS), d>>,
          <<Key(<< <<"a", "b">> >>, ZATTRS), JObj(UnitsK)>> >>
AggManifests ==
    UNION { { AggManifest(p, a[1], a[2], d) : p \in {EmptyObj, a[1]}, d \in {a[1], a[2]} }
            : a \in (AggAttrs \ {EmptyObj}) \X (AggAttrs \ {EmptyObj}) }

InitAgg ==
    \E m \in AggManifests :
        InitWith(StoreU :> Consolidated(m),
                 HashOf([baseUrl |-> StoreU, activePath |-> RootPath]))

NextAgg ==
    \/ \E l \in inflight : LoadOk(l)
    \/ \E key \in {"ArrowDown", "ArrowUp"} : KeyDown(key)

SpecAgg == InitAgg /\ [][NextAgg]_vars

\* The naming-spec feature: store U holds, below the root, the groups a_b and
\* c_d or c, the array e_f, and below a_b the groups c_d and e; c_d carries
\* attributes of its own.  The user types templates, applies them with the
\* button, reloads the store, follows links and navigates.
OldAttrs == JObj(<< <<<<"e">>, JStr(<<"z">>)>>, <<<<"k">>, JStr(<<"v">>)>> >>)
NamingDoc(second) ==
    Consolidated(<<
        <<Key(<<>>, ZGROUP), EmptyObj>>,
        <<Key(<< <<"a", "_", "b">> >>, ZGROUP), EmptyObj>>,
        <<Key(<< <<"a", "_", "b">>, <<"c", "_", "d">> >>, ZATTRS), OldAttrs>>,
        <<Key(<< <<"a", "_", "b">>, <<"e">> >>, ZGROUP), EmptyObj>>,
        <<Key(<< second >>, ZATTRS), OldAttrs>>,
        <<Key(<< <<"e", "_", "f">> >>, ZARRAY), SomeZarray>> >>)
NamingDocs == { NamingDoc(<<"c", "_", "d">>), NamingDoc(<<"c">>) }
\* Templates typed into #namingSpec: two keys, one key, one key twice
NamingTexts == { <<"e", "_", "f">>, <<"e">>, <<"e", "_", "e">> }
NamingJumps == { HashOf([baseUrl |-> StoreU, activePath |-> <<Slash, "g">>]) }

InitNaming ==
    \E d \in NamingDocs :
        InitWith(StoreU :> d, HashOf([baseUrl |-> StoreU, activePath |-> RootPath]))

NextNaming ==
    \/ LoadClick(StoreU)
    \/ \E l \in inflight : LoadOk(l)
    \/ \E l \in inflight : LoadFail(l)
    \/ \E h \in NamingJumps : HashJump(h)
    \/ HashChange
    \/ \E key \in {"ArrowDown", "ArrowUp"} : KeyDown(key)
    \/ \E text \in NamingTexts : TypeNamingSpec(text)
    \/ ApplyNamingClick

SpecNaming == InitNaming /\ [][NextNaming]_vars

\* The path functions on their own.  A raw string arrives (ev.arg), the
\* active path is set to its normal form as the hashchange handler does, and
\* base names are joined to the active path as the tree walks do.
RECURSIVE Strings(_, _)
\* The strings of at most n characters from chars
Strings(chars, n) ==
    IF n = 0 THEN { <<>> }
    ELSE LET shorter == Strings(chars, n - 1)
         IN  shorter \cup { Append(x, c) : x \in { y \in shorter : Len(y) = n - 1 },
                                           c \in chars }
\* Raw path strings; <<>> stands for the empty string and for undefined,
\* which take the same branch of normalizePath
RawPaths == Strings({Slash, "a", "b"}, MaxRawLen)
BaseNames == Strings({"a", "b", "_"}, MaxBaseLen) \ { <<>> }

InitPaths ==
    \E p \in RawPaths :
        /\ remote = ViewerRemote
        /\ state = [baseUrl |-> <<>>, tree |-> NullTree,
                    activePath |-> RootPath, highlightVarPath |-> <<>>]
        /\ hash = <<>>
        /\ hashEvents = 0
        /\ dom = [sidebar |-> {}, navlinks |-> {}, slide |-> NoSlide, agg |-> HiddenAgg]
        /\ inflight = {}
        /\ namingSpec = <<>>
        /\ ev = Event("path", p, <<>>)

\* state.activePath = normalizePath(path)
CallNormalizePath ==
    /\ ev.op = "path"
    /\ state' = [state EXCEPT !.activePath = normalizePath(ev.arg)]
    /\ ev' = Event("normalizePath", ev.arg, normalizePath(ev.arg))
    /\ UNCHANGED <<remote, hash, hashEvents, dom, inflight, namingSpec>>

\* join(state.activePath, b)
CallJoin(b) ==
    /\ ev.op = "normalizePath"
    /\ ev' = Event("join", b, join(state.activePath, b))
    /\ UNCHANGED <<remote, state, hash, hashEvents, dom, inflight, namingSpec>>

NextPaths ==
    \/ CallNormalizePath
    \/ \E b \in BaseNames : CallJoin(b)

SpecPaths == InitPaths /\ [][NextPaths]_vars

(***************************************************************************)
(* Properties.  The path relations below are stated on the characters of   *)
(* a path, without the path utilities of the program.                      *)
(***************************************************************************)
\* Index of the last "/" of a normalized path
LastSlash(p) == CHOOSE k \in 1..Len(p) : p[k] = Slash /\ \A j \in (k + 1)..Len(p) : p[j] # Slash

\* The last segment of a normalized path ("/" for the root)
LastSeg(p) == IF p = RootPath THEN RootPath ELSE SubSeq(p, LastSlash(p) + 1, Len(p))

\* The path one level up (the root is its own parent)
ParentPath(p) ==
    IF p = RootPath \/ LastSlash(p) = 1 THEN RootPath
    ELSE SubSeq(p, 1, LastSlash(p) - 1)

\* c lies directly below p
IsChildPath(p, c) == c # RootPath /\ ParentPath(c) = p

\* The path of the child of p named name
ChildPath(p, name) == IF p = RootPath THEN <<Slash>> \o name ELSE p \o <<Slash>> \o name

Nodes(tree) == { tree.pathMap[i] : i \in 1..Len(tree.pathMap) }
Elems(seq) == { seq[i] : i \in 1..Len(seq) }

\* The names of S listed in ascending collation order
SortedSeqOf(S) ==
    CHOOSE q \in [1..Cardinality(S) -> S] :
        \A k, l \in 1..Cardinality(S) : k < l => LexLess(q[k], q[l])

\* Names of the group nodes directly below p, in ascending order
GroupsBelow(tree, p) ==
    SortedSeqOf({ LastSeg(n.path) : n \in { x \in Nodes(tree) :
                                             IsChildPath(p, x.path) /\ x.type = "group" } })

\* Zero-based position of name in list, -1 when absent
PositionIn(list, name) ==
    IF name \in Elems(list) THEN (CHOOSE i \in 1..Len(list) : list[i] = name) - 1 ELSE -1

\* The entries of the manifest served by store U and the paths they declare
EntriesOfU == GetProp(remote[StoreU], <<"metadata">>).kv
DeclaredPath(key) ==
    IF Len(key) = 1 THEN RootPath ELSE <<Slash>> \o SubSeq(key, 1, Len(key) - 2)
DeclaredPaths == { DeclaredPath(EntriesOfU[i][1]) : i \in 1..Len(EntriesOfU) }

PathA == <<Slash, "a">>
PathAA == <<Slash, "a", Slash, "a">>
PathAAC == <<Slash, "a", Slash, "a", Slash, "c">>

\* C1: whenever a tree is loaded, activePath is the path of a node of that
\* tree and the node is a Group.
C1_ActivePathIsGroup ==
    ~state.tree.null => IsGroupAt(state.tree, state.activePath)

\* C2: in every built tree the parent path of every non-root node is a node
\* of the tree, and every node whose path the manifest does not declare is a
\* Group with empty attributes.
C2_ParentsExist ==
    ~state.tree.null =>
        \A n \in Nodes(state.tree) :
            /\ n.path # RootPath =>
                   \E m \in Nodes(state.tree) : IsChildPath(m.path, n.path)
            /\ n.path \notin DeclaredPaths =>
                   n.type = "group" /\ n.attrs = EmptyObj

\* C2 witness: the manifest declares only the array a/a/c; /a and /a/a are
\* synthesized groups with children [a] and [c].
C2_Witness ==
    /\ ~state.tree.null
    /\ EntriesOfU = << <<Key(<< <<"a">>, <<"a">>, <<"c">> >>, ZARRAY), SomeZarray>> >>
    /\ IsArrayAt(state.tree, PathAAC)
    /\ IsGroupAt(state.tree, PathA) /\ NodeAt(state.tree, PathA).children = << <<"a">> >>
    /\ IsGroupAt(state.tree, PathAA) /\ NodeAt(state.tree, PathAA).children = << <<"c">> >>
    /\ NodeAt(state.tree, PathAA).attrs = EmptyObj

\* C3: in every built tree the children of every node are listed without
\* duplicates in ascending order and are exactly the last segments of the
\* tree paths directly below the node.
C3_ChildrenExact ==
    ~state.tree.null =>
        \A n \in Nodes(state.tree) :
            /\ Elems(n.children) =
                   { LastSeg(m.path) : m \in { x \in Nodes(state.tree) :
                                                IsChildPath(n.path, x.path) } }
            /\ \A k, l \in 1..Len(n.children) :
                   k < l => LexLess(n.children[k], n.children[l])

\* C3 witness: the manifest declares /c before /b and the root lists b, c.
C3_Witness ==
    /\ ~state.tree.null
    /\ Len(EntriesOfU) = 2
    /\ EntriesOfU[1][1] = Key(<< <<"c">> >>, ZGROUP)
    /\ EntriesOfU[2][1] = Key(<< <<"b">> >>, ZARRAY)
    /\ NodeAt(state.tree, RootPath).children = << <<"b">>, <<"c">> >>

\* C4: every built tree contains the root node and its kind is Group.
C4_RootIsGroup ==
    ~state.tree.null => IsGroupAt(state.tree, RootPath)

\* C5: ArrowLeft / ArrowRight with L the ascending list of the Group
\* children of the parent of activePath and i the position of activePath's
\* name in L: the state is unchanged when L is empty or i = -1, otherwise
\* activePath becomes the child L[(i + d) mod |L|] of the parent.
C5_CycleSibling ==
    [][ (ev'.op \in {"ArrowLeft", "ArrowRight"} /\ ~state.tree.null) =>
            LET parent == ParentPath(state.activePath)
                L == GroupsBelow(state.tree, parent)
                i == PositionIn(L, LastSeg(state.activePath))
                d == IF ev'.op = "ArrowRight" THEN 1 ELSE -1
            IN  IF Len(L) = 0 \/ i = -1 THEN state' = state
                ELSE state'.activePath =
                         ChildPath(parent, L[((i + d) % Len(L)) + 1])
      ]_vars

\* C5 witness: ArrowRight pressed on the last of three sibling groups has
\* made the first one active.
C5_Witness ==
    /\ ev.op = "ArrowRight"
    /\ ~state.tree.null
    /\ LET parent == ParentPath(state.activePath)
           L == GroupsBelow(state.tree, parent)
       IN  /\ Len(L) >= 3
           /\ ev.arg = ChildPath(parent, L[Len(L)])
           /\ state.activePath = ChildPath(parent, L[1])

\* C6: ArrowDown makes the first Group child (in ascending order of the
\* children) of the active node active, skipping Array children; without a
\* Group child the state is unchanged.
C6_FirstGroupChild ==
    [][ (ev'.op = "ArrowDown" /\ ~state.tree.null) =>
            LET G == GroupsBelow(state.tree, state.activePath)
            IN  IF Len(G) = 0 THEN state' = state
                ELSE state'.activePath = ChildPath(state.activePath, G[1])
      ]_vars

\* C6 witness: ArrowDown has entered a group although an Array child with a
\* smaller name comes first among the children.
C6_Witness ==
    /\ ev.op = "ArrowDown"
    /\ ~state.tree.null
    /\ IsChildPath(ev.arg, state.activePath)
    /\ \E n \in Nodes(state.tree) :
           /\ IsChildPath(ev.arg, n.path)
           /\ n.type = "array"
           /\ LexLess(LastSeg(n.path), LastSeg(state.activePath))

\* The effect setActive(p) must have on the viewer state
SetActivePost(p) ==
    /\ IsArrayAt(state.tree, p) =>
           state'.activePath = ParentPath(p) /\ state'.highlightVarPath = p
    /\ IsGroupAt(state.tree, p) =>
           state'.activePath = p /\ state'.highlightVarPath = <<>>

\* C7: setActive(p) for an Array node p makes the parent path of p active
\* and highlights p; for a Group node p it makes p active and clears the
\* highlight.  setActive is called with the clicked path and, on ArrowUp,
\* with the parent of the active path.
C7_SetActive ==
    [][ /\ (ev'.op = "click" /\ ~state.tree.null) => SetActivePost(ev'.arg)
        /\ (ev'.op = "ArrowUp" /\ ~state.tree.null
              /\ ParentPath(state.activePath) # state.activePath) =>
               SetActivePost(ParentPath(state.activePath))
      ]_vars

\* C7 witness: ArrowUp from below an Array has highlighted the array and
\* made the array's parent active.
C7_Witness ==
    /\ ev.op = "ArrowUp"
    /\ ~state.tree.null
    /\ state.highlightVarPath # <<>>
    /\ IsArrayAt(state.tree, state.highlightVarPath)
    /\ IsChildPath(state.highlightVarPath, ev.arg)
    /\ state.activePath = ParentPath(state.highlightVarPath)

\* C8: when a load started by the Load button completes, tree is the tree
\* built from the fetched manifest, baseUrl the new base, activePath the
\* root and no Array path is highlighted.
C8_LoadResetsState ==
    (ev.op = "loadOk" /\ ev.path = <<>>) =>
        /\ state.baseUrl = StripTrailingSlash(ev.arg)
        /\ state.tree = buildTree(remote[state.baseUrl])
        /\ state.activePath = RootPath
        /\ state.highlightVarPath = <<>>

\* C9: a load that fails leaves baseUrl, tree, activePath and the highlight
\* as they were.
C9_FailedLoadKeepsState ==
    [][ ev'.op = "loadFail" => state' = state ]_vars

\* C10: after a deep link to another store has been loaded, activePath is
\* the given path if the loaded tree has a node there and the root
\* otherwise; a deep link to the current store sets activePath to the given
\* path without starting a load.
C10_DeepLink ==
    /\ (ev.op = "loadOk" /\ ev.path # <<>>) =>
           state.activePath = IF HasNode(state.tree, normalizePath(ev.path))
                              THEN normalizePath(ev.path) ELSE RootPath
    /\ (ev.op = "hashchange" /\ hash # <<>> /\ HashStore(hash) = state.baseUrl
          /\ ~state.tree.null) =>
           state.activePath = normalizePath(HashPath(hash))

\* The value of the top-level "metadata" key of the document store U serves
MetadataOfU == GetProp(remote[StoreU], <<"metadata">>)

\* C11: while the document served has no "metadata" key, or a value there
\* that is not an object, no tree is ever installed (every load of it fails).
C11_MalformedNeverLoads ==
    MetadataOfU.t # "object" => state.tree.null

\* C12: tree and baseUrl are replaced together: after every step a loaded
\* tree is the tree built from the document of the current baseUrl, and a
\* load that changes activePath on a loaded tree is a load of the store
\* baseUrl names.
C12_TreeAndBaseTogether ==
    [][ /\ ~state'.tree.null => state'.tree = buildTree(remote[state'.baseUrl])
        /\ (ev'.op \in {"loadOk", "loadFail"} /\ ~state'.tree.null
              /\ state'.activePath # state.activePath) =>
               state'.baseUrl = normalizeBase(ev'.arg)
      ]_vars

\* The Array nodes directly below the active group, and what the manifest
\* says about each: its shape, its rank, its explicit dimension names
ActiveArrays ==
    IF state.tree.null THEN {}
    ELSE { n \in Nodes(state.tree) :
             n.type = "array" /\ IsChildPath(state.activePath, n.path) }
DeclaredShape(n) ==
    LET shape == GetProp(n.zarray, <<SHAPE>>)
    IN  IF shape.t = "array" THEN Items(shape) ELSE <<>>
HasDimList(n) ==
    LET d == GetProp(n.attrs, <<ARRAY_DIMENSIONS>>)
    IN  d.t = "array" /\ \A i \in 1..Len(d.kv) : d.kv[i][2].t = "string"
DimList(n) ==
    LET d == GetProp(n.attrs, <<ARRAY_DIMENSIONS>>)
    IN  [i \in 1..Len(d.kv) |-> d.kv[i][2].s]
\* The row of the slide that lists array n
Listed == Elems(dom.slide.coords) \cup Elems(dom.slide.dataVars)
RowOf(n) == CHOOSE v \in Listed : v.name = LastSeg(n.path)
\* The slide shows the active group
GroupShown == dom.slide.kind = "group" /\ \A n \in ActiveArrays :
                  \E v \in Listed : v.name = LastSeg(n.path)
\* Coordinate candidates: the 1-D arrays of the group, with their sizes
IsCandidate(n) == Len(DeclaredShape(n)) = 1 /\ DeclaredShape(n)[1].t = "number"
CandidateNames == { LastSeg(n.path) : n \in { x \in ActiveArrays : IsCandidate(x) } }

\* C13: an explicit dimension list is used when its length equals the rank
\* of the shape, and every listed array has one dimension name per axis.
C13_OneNamePerAxis ==
    GroupShown =>
        \A n \in ActiveArrays :
            /\ (HasDimList(n) /\ Len(DimList(n)) = Len(DeclaredShape(n))) =>
                   RowOf(n).dims = DimList(n)
            /\ Len(RowOf(n).dims) = Len(DeclaredShape(n))

\* The first axis of shape with the size sz (0 when there is none)
FirstAxisOfSize(shape, sz) ==
    IF \E i \in 1..Len(shape) : shape[i] = sz
    THEN CHOOSE i \in 1..Len(shape) :
             shape[i] = sz /\ \A j \in 1..(i - 1) : shape[j] # sz
    ELSE 0

\* C14: with a self-named coordinate c of size n in the group, an array v
\* without dimension list that has an axis of size n, and no other declared
\* dimension of that size, that axis of v is named c.
C14_FallbackBySize ==
    GroupShown =>
        \A c, v \in ActiveArrays :
            LET name == LastSeg(c.path)
                n == DeclaredShape(c)[1]
                axis == FirstAxisOfSize(DeclaredShape(v), n)
            IN  ( /\ IsCandidate(c) /\ HasDimList(c) /\ DimList(c) = <<name>>
                  /\ ~HasDimList(v) /\ axis > 0
                  /\ \A w \in ActiveArrays \ {c} : ~HasDimList(w) )
                => RowOf(v).dims[axis] = name

\* C15: when no array of the group has a dimension list and there is a 1-D
\* array, the dimension table holds the candidates with their sizes and the
\* first axis of an array whose size a candidate has is named after such a
\* candidate.
C15_SeededFromCandidates ==
    (GroupShown /\ CandidateNames # {} /\ \A n \in ActiveArrays : ~HasDimList(n)) =>
        /\ Elems(dom.slide.dimSizes) =
               { <<LastSeg(n.path), DeclaredShape(n)[1]>> :
                   n \in { x \in ActiveArrays : IsCandidate(x) } }
        /\ \A v \in ActiveArrays :
               (\E c \in ActiveArrays : IsCandidate(c) /\ Len(DeclaredShape(v)) > 0
                                           /\ DeclaredShape(c)[1] = DeclaredShape(v)[1]) =>
                   \E c \in ActiveArrays :
                       /\ IsCandidate(c)
                       /\ DeclaredShape(c)[1] = DeclaredShape(v)[1]
                       /\ RowOf(v).dims[1] = LastSeg(c.path)

\* C16: an array is listed as a coordinate iff it is 1-D and its name is a
\* candidate, or its only dimension name is its own name or the name of a
\* candidate; every other array is a data variable, and every array of the
\* group is in exactly one of the two lists.
C16_Classification ==
    GroupShown =>
        \A n \in ActiveArrays :
            LET name == LastSeg(n.path)
                dims == RowOf(n).dims
                isCoordinate ==
                    \/ Len(DeclaredShape(n)) = 1 /\ name \in CandidateNames
                    \/ Len(dims) = 1 /\ (dims[1] = name \/ dims[1] \in CandidateNames)
                inCoords == \E i \in 1..Len(dom.slide.coords) : dom.slide.coords[i].name = name
                inData == \E i \in 1..Len(dom.slide.dataVars) : dom.slide.dataVars[i].name = name
            IN  /\ inCoords <=> isCoordinate
                /\ inData <=> ~isCoordinate

(***************************************************************************)
(* Attribute aggregation                                                   *)
(***************************************************************************)
\* The aggregate panel shows the aggregation for the active group
AggShown ==
    /\ ~state.tree.null
    /\ IsGroupAt(state.tree, state.activePath)
    /\ ~dom.agg.hidden

\* Path p is nested under the group path g at some depth
NestedUnder(p, g) ==
    /\ p # g
    /\ IF g = RootPath THEN StartsWith(p, RootPath)
       ELSE StartsWith(p, g \o <<Slash>>)

\* The paths of the Group nodes at or under g
GroupsAtOrUnder(g) ==
    { n.path : n \in { state.tree.pathMap[i] : i \in 1..Len(state.tree.pathMap) }
               \cap { m \in { state.tree.pathMap[i] : i \in 1..Len(state.tree.pathMap) } :
                        m.type = "group" /\ (m.path = g \/ NestedUnder(m.path, g)) } }

SeqRange(seq) == { seq[i] : i \in 1..Len(seq) }

\* C17: for every group g the panel is rendered for, the root included, the
\* aggregator works over exactly the Group nodes whose path is g or nested
\* under g; arrays and groups that only share a string prefix are excluded.
C17_MembersAtOrUnder ==
    AggShown => SeqRange(dom.agg.members) = GroupsAtOrUnder(state.activePath)

\* The attribute keys of the group at path p
KeysAt(p) ==
    LET a == ObjectEntries(OrEmptyObj(NodeAt(state.tree, p).attrs))
    IN  { a[j][1] : j \in 1..Len(a) }
ValueAt(p, k) == AttrOf(NodeAt(state.tree, p), k)

\* The child groups of the active group
ChildGroups ==
    LET g == NodeAt(state.tree, state.activePath)
    IN  { join(g.path, g.children[i]) : i \in 1..Len(g.children) }
        \cap { q \in { join(g.path, g.children[i]) : i \in 1..Len(g.children) } :
                 IsGroupAt(state.tree, q) }

RECURSIVE DeepEqual(_, _)
\* Deep structural equality of two JSON values: sequences by length and
\* elements in order, mappings by key set and value per key
DeepEqual(a, b) ==
    IF a.t # b.t THEN FALSE
    ELSE IF a.t = "array"
         THEN /\ Len(a.kv) = Len(b.kv)
              /\ \A i \in 1..Len(a.kv) : DeepEqual(a.kv[i][2], b.kv[i][2])
    ELSE IF a.t = "object"
         THEN /\ { a.kv[i][1] : i \in 1..Len(a.kv) } = { b.kv[i][1] : i \in 1..Len(b.kv) }
              /\ \A i \in 1..Len(a.kv) : DeepEqual(a.kv[i][2], GetProp(b, a.kv[i][1]))
    ELSE a.s = b.s

\* The text the panel shows for key k, <<>> when it has no row for k
ShownFor(k) ==
    IF \E i \in 1..Len(dom.agg.rows) : dom.agg.rows[i].key = k
    THEN dom.agg.rows[CHOOSE i \in 1..Len(dom.agg.rows) : dom.agg.rows[i].key = k].display
    ELSE <<>>

\* C18: when the panel is rendered for a group with several child groups,
\* a key carried by all of them with one identical value is shown with that
\* value, and a key carried by all of them with values that differ is shown
\* as "(varies)".
C18_SiblingAggregation ==
    AggShown =>
        \A k \in UNION { KeysAt(q) : q \in ChildGroups } :
            (\A q \in ChildGroups : k \in KeysAt(q)) =>
                /\ (\A q, r \in ChildGroups : ValueAt(q, k) = ValueAt(r, k))
                    => \E q \in ChildGroups : ShownFor(k) = DisplayOf(ValueAt(q, k))
                /\ (\E q, r \in ChildGroups : ~DeepEqual(ValueAt(q, k), ValueAt(r, k)))
                    => ShownFor(k) = Varies

\* C19: the panel has exactly one row for every key present in at least one
\* group at or under the active group, and a key present in one of these
\* groups and missing in another is shown as "(varies)", whatever the order
\* of the groups.
C19_RowPerKey ==
    AggShown =>
        LET members == GroupsAtOrUnder(state.activePath)
            keys == UNION { KeysAt(q) : q \in members }
        IN  /\ { dom.agg.rows[i].key : i \in 1..Len(dom.agg.rows) } = keys
            /\ Len(dom.agg.rows) = Cardinality(keys)
            /\ \A k \in keys :
                   (\E q \in members : k \notin KeysAt(q)) => ShownFor(k) = Varies

\* C20: the equality the aggregation uses is deep structural equality: a key
\* carried by every group the aggregator worked over is shown with a value
\* exactly when the values are pairwise deeply equal (sequences in order,
\* mappings by key set whatever the insertion order of the keys).
C20_DeepStructuralEquality ==
    AggShown =>
        \A k \in UNION { KeysAt(q) : q \in SeqRange(dom.agg.members) } :
            (\A q \in SeqRange(dom.agg.members) : k \in KeysAt(q)) =>
                ((ShownFor(k) # Varies)
                    <=> \A q, r \in SeqRange(dom.agg.members) :
                            DeepEqual(ValueAt(q, k), ValueAt(r, k)))

(***************************************************************************)
(* The naming-spec feature                                                 *)
(***************************************************************************)
\* The keys of the template in #namingSpec
TemplateKeys == SpecKeys(Trim(namingSpec))
\* The tokens of the base name of the node at path c
Tokens(c) == Split(basename(c), Underscore)
\* The immediate child groups of the group at path p
ChildGroupsOf(tree, p) == SeqRange(GroupChildPaths(tree, NodeAt(tree, p)))
MismatchUnder(tree, p) ==
    \E c \in ChildGroupsOf(tree, p) : Len(Tokens(c)) # Len(TemplateKeys)
\* The document a load that has just completed was built from
LoadedDoc == remote[normalizeBase(ev'.arg)]

\* C21: when the base name of at least one immediate child group of the
\* target has another number of tokens than the template has keys, no
\* attribute of any child group changes: by the button (target: the active
\* group) the children keep their attributes, and after a load (target: the
\* root) they have the attributes the build gave them.
C21_AllOrNothing ==
    [][ /\ ( /\ ev'.op = "applyNaming"
             /\ ~state.tree.null
             /\ IsGroupAt(state.tree, state.activePath)
             /\ TemplateKeys # <<>>
             /\ MismatchUnder(state.tree, state.activePath) )
           => \A c \in ChildGroupsOf(state.tree, state.activePath) :
                  NodeAt(state'.tree, c).attrs = NodeAt(state.tree, c).attrs
        /\ ( /\ ev'.op = "loadOk"
             /\ TemplateKeys # <<>>
             /\ IsGroupAt(buildTree(LoadedDoc), RootPath)
             /\ MismatchUnder(buildTree(LoadedDoc), RootPath) )
           => \A c \in ChildGroupsOf(buildTree(LoadedDoc), RootPath) :
                  NodeAt(state'.tree, c).attrs = NodeAt(buildTree(LoadedDoc), c).attrs
      ]_vars

\* C21 witness: the button was clicked on a group whose first child group
\* matches the template and whose later child group does not
C21_Witness ==
    /\ ev.op = "applyNaming"
    /\ ~state.tree.null
    /\ IsGroupAt(state.tree, state.activePath)
    /\ TemplateKeys # <<>>
    /\ LET children == GroupChildPaths(state.tree, NodeAt(state.tree, state.activePath))
       IN  /\ Len(children) >= 2
           /\ Len(Tokens(children[1])) = Len(TemplateKeys)
           /\ Len(Tokens(children[2])) # Len(TemplateKeys)

\* The button applies the template: every child group of the active group
\* matches it
NamingApplies ==
    /\ ev'.op = "applyNaming"
    /\ ~state.tree.null
    /\ IsGroupAt(state.tree, state.activePath)
    /\ TemplateKeys # <<>>
    /\ ChildGroupsOf(state.tree, state.activePath) # {}
    /\ ~MismatchUnder(state.tree, state.activePath)

AttrKeys(v) == { ObjectEntries(OrEmptyObj(v))[j][1] : j \in 1..Len(ObjectEntries(OrEmptyObj(v))) }

\* What an application leaves alone: the other keys of the children, every
\* node that is no child group of the target, the structure, activePath
NamingFrame ==
    /\ state'.activePath = state.activePath
    /\ Len(state'.tree.pathMap) = Len(state.tree.pathMap)
    /\ \A j \in 1..Len(state.tree.pathMap) :
         LET old == state.tree.pathMap[j]
             new == state'.tree.pathMap[j]
         IN  IF old.path \in ChildGroupsOf(state.tree, state.activePath)
             THEN /\ [new EXCEPT !.attrs = old.attrs] = old
                  /\ AttrKeys(new.attrs) = AttrKeys(old.attrs) \cup SeqRange(TemplateKeys)
                  /\ \A k \in AttrKeys(old.attrs) \ SeqRange(TemplateKeys) :
                         GetProp(new.attrs, k) = GetProp(old.attrs, k)
             ELSE new = old

\* C22 as stated: after a successful application each child group has
\* attrs[key_i] = token_i for every position i of the template, and nothing
\* else changes.
C22_TokenPerPosition ==
    [][ NamingApplies =>
          /\ \A c \in ChildGroupsOf(state.tree, state.activePath) :
               \A i \in 1..Len(TemplateKeys) :
                   GetProp(NodeAt(state'.tree, c).attrs, TemplateKeys[i]) = JStr(Tokens(c)[i])
          /\ NamingFrame
      ]_vars

\* The last position at which key k stands in the template
LastPosition(k) ==
    CHOOSE i \in 1..Len(TemplateKeys) :
        TemplateKeys[i] = k /\ \A j \in (i + 1)..Len(TemplateKeys) : TemplateKeys[j] # k

\* C22 amended: after a successful application each child group has, for
\* every key of the template, the token at the last position of that key
\* (token_i for key_i when the keys are pairwise distinct), overwriting any
\* previous value, and nothing else changes.
C22_LastTokenPerKey ==
    [][ NamingApplies =>
          /\ \A c \in ChildGroupsOf(state.tree, state.activePath) :
               \A k \in SeqRange(TemplateKeys) :
                   GetProp(NodeAt(state'.tree, c).attrs, k) = JStr(Tokens(c)[LastPosition(k)])
          /\ NamingFrame
      ]_vars

\* C22 witness: the button has overwritten the value "z" that /c_d carried
\* at key e, below a root with an Array child
C22_Witness ==
    /\ ev.op = "applyNaming"
    /\ state.activePath = RootPath
    /\ HasNode(state.tree, <<Slash, "c", "_", "d">>)
    /\ TemplateKeys = << <<"e">>, <<"f">> >>
    /\ NodeAt(state.tree, <<Slash, "c", "_", "d">>).attrs =
         JObj(<< <<<<"e">>, JStr(<<"c">>)>>, <<<<"k">>, JStr(<<"v">>)>>,
                 <<<<"f">>, JStr(<<"d">>)>> >>)

\* The tree without its attribute values
Structure(tree) ==
    [null |-> tree.null,
     nodes |-> [j \in 1..Len(tree.pathMap) |->
                  [path |-> tree.pathMap[j].path, type |-> tree.pathMap[j].type,
                   children |-> tree.pathMap[j].children,
                   zarray |-> tree.pathMap[j].zarray]]]

\* C23: a step that is no successful load leaves the paths, kinds, children
\* and array specs of the tree as they are; only the naming-spec button
\* changes the tree at all, and only attributes of Group nodes.
C23_StructureImmutable ==
    [][ /\ ev'.op # "loadOk" => Structure(state'.tree) = Structure(state.tree)
        /\ ev'.op \notin {"loadOk", "applyNaming"} => state'.tree = state.tree
        /\ ev'.op = "applyNaming" =>
             \A j \in 1..Len(state.tree.pathMap) :
                 state'.tree.pathMap[j] # state.tree.pathMap[j]
                     => state.tree.pathMap[j].type = "group"
      ]_vars

\* C23 witness: a load failed while a tree whose attributes the naming spec
\* has changed is shown
C23_Witness ==
    /\ ev.op = "loadFail"
    /\ ~state.tree.null
    /\ state.tree # buildTree(remote[state.baseUrl])

(***************************************************************************)
(* Path algebra                                                            *)
(***************************************************************************)
\* C24: normalizePath is idempotent: the normal form of a raw path string
\* (empty, with repeated, leading or trailing separators) is its own normal
\* form.
C24_NormalizeIdempotent ==
    ev.op = "normalizePath" => normalizePath(ev.path) = ev.path

\* C24 witness: a string with repeated and trailing separators and no
\* leading one was normalized
C24_Witness ==
    /\ ev.op = "normalizePath"
    /\ ev.arg = <<"a", Slash, Slash, Slash>>
    /\ ev.path = <<Slash, "a">>

\* C25: for a valid path p (the active path, root included) and a non-empty
\* base name b without a separator, basename(join(p, b)) = b and
\* dirname(join(p, b)) = normalizePath(p).
C25_JoinSplits ==
    ev.op = "join" =>
        /\ basename(ev.path) = ev.arg
        /\ dirname(ev.path) = normalizePath(state.activePath)

\* C25 witness: a base name of two characters was joined to the root
C25_Witness ==
    /\ ev.op = "join"
    /\ state.activePath = RootPath
    /\ Len(ev.arg) = 2

(***************************************************************************)
(* Order of the manifest entries                                           *)
(***************************************************************************)
\* The entries of the document store U serves
LoadedEntries == ObjectEntries(GetProp(remote[StoreU], <<"metadata">>))
\* Some path carries both a group marker and an array marker
KindConflict(es) ==
    \E i, j \in 1..Len(es) :
        /\ Front(es[i][1]) = Front(es[j][1])
        /\ Last(es[i][1]) = ZGROUP
        /\ Last(es[j][1]) = ZARRAY
EntryOrders(n) ==
    { f \in [1..n -> 1..n] : \A i, j \in 1..n : i # j => f[i] # f[j] }
\* The nodes of a tree: path, kind, attributes, array spec, children list
NodeSet(tree) == SeqRange(tree.pathMap)

\* C26: when no path carries both a group marker and an array marker, the
\* tree built from any permutation of the manifest's entries has the nodes
\* of the tree built from the manifest: same paths, kinds, attributes, array
\* specs and children lists.
C26_OrderIndependent ==
    (~state.tree.null /\ ~KindConflict(LoadedEntries)) =>
        \A f \in EntryOrders(Len(LoadedEntries)) :
            NodeSet(buildTree(Consolidated(
                [i \in 1..Len(LoadedEntries) |-> LoadedEntries[f[i]]]))) = NodeSet(state.tree)

\* C26 witness: the manifest names the attributes of /a/b before its array
\* marker and both before the group marker of its parent /a; /a/b is an
\* Array with these attributes
C26_Witness ==
    /\ ~state.tree.null
    /\ Len(LoadedEntries) = 3
    /\ LoadedEntries[1][1] = Key(<< <<"a">>, <<"b">> >>, ZATTRS)
    /\ LoadedEntries[2][1] = Key(<< <<"a">>, <<"b">> >>, ZARRAY)
    /\ LoadedEntries[3][1] = Key(<< <<"a">> >>, ZGROUP)
    /\ IsArrayAt(state.tree, <<Slash, "a", Slash, "b">>)
    /\ NodeAt(state.tree, <<Slash, "a", Slash, "b">>).attrs = SomeAttrs
    /\ IsGroupAt(state.tree, <<Slash, "a">>)

(***************************************************************************)
(* Keyboard navigation over the hierarchy                                  *)
(***************************************************************************)
RECURSIVE PressUp(_, _)
\* The page after k presses of ArrowUp
PressUp(w, k) == IF k = 0 THEN w ELSE handleKeydown(PressUp(w, k - 1), "ArrowUp")

\* The active path has no node in the loaded tree
PathNotFound == ~state.tree.null /\ ~HasNode(state.tree, state.activePath)

\* C27: from a state whose active path has no node in the loaded tree,
\* presses of ArrowUp strictly shorten the active path and make an existing
\* Group node active after at most as many presses as the path has segments.
C27_RecoverByArrowUp ==
    PathNotFound =>
        \E k \in 1..Len(PathParts(state.activePath)) :
            /\ IsGroupAt(state.tree, PressUp(World, k).state.activePath)
            /\ \A j \in 1..k :
                   Len(PressUp(World, j).state.activePath)
                       < Len(PressUp(World, j - 1).state.activePath)

\* The active path after key is pressed with p the active path
PressFrom(p, key) ==
    handleKeydown([World EXCEPT !.state.activePath = p], key).state.activePath

RECURSIVE DownRightClosure(_)
\* The paths that presses of ArrowDown and ArrowRight lead to from paths
DownRightClosure(paths) ==
    LET more == paths \cup { PressFrom(p, key) :
                               p \in paths, key \in {"ArrowDown", "ArrowRight"} }
    IN  IF more = paths THEN paths ELSE DownRightClosure(more)

\* The paths of the proper ancestors of the node at path p
AncestorsOf(p) ==
    { <<Slash>> \o JoinWith(SubSeq(PathParts(p), 1, k), Slash) :
        k \in 0..(Len(PathParts(p)) - 1) }

\* C28: in every built tree, every Group node all of whose ancestors are
\* Groups becomes the active path by some finite sequence of ArrowDown and
\* ArrowRight presses that starts at the root.
C28_AllGroupsReachable ==
    ~state.tree.null =>
        \A j \in 1..Len(state.tree.pathMap) :
            LET n == state.tree.pathMap[j]
            IN  (n.type = "group" /\ \A q \in AncestorsOf(n.path) : IsGroupAt(state.tree, q))
                    => n.path \in DownRightClosure({RootPath})

\* C28 witness: ArrowRight has made a group of the second level active that
\* is not the first child group of its parent
C28_Witness ==
    /\ ev.op = "ArrowRight"
    /\ ~state.tree.null
    /\ Len(PathParts(state.activePath)) = 2
    /\ IsGroupAt(state.tree, state.activePath)
    /\ firstChildOf(state.tree, dirname(state.activePath)) # state.activePath
    /\ \A q \in AncestorsOf(state.activePath) : IsGroupAt(state.tree, q)

(***************************************************************************)
(* Size-based inference and the dimension list                             *)
(***************************************************************************)
\* The arrays whose axes the inference loop names: no dimension names, or
\* placeholders only
Inferred(n) ==
    LET d == inferArrayDims(n)
    IN  Len(d) = 0 \/ \A i \in 1..Len(d) : IsPlaceholderDim(d[i])

\* C29: in the dimension list the inference loop gives an array, no name of
\* the dimension table stands twice, and every axis has either a table name
\* of its size or the placeholder of its position.
C29_EntryUsedOnce ==
    GroupShown =>
        \A n \in { x \in ActiveArrays : Inferred(x) } :
            LET dims == RowOf(n).dims
                shape == RowOf(n).shape
            IN  /\ Len(dims) = Len(shape)
                /\ \A i, j \in 1..Len(dims) :
                       (i # j /\ dims[i] = dims[j]) => ~MapHas(dom.slide.dimSizes, dims[i])
                /\ \A i \in 1..Len(dims) :
                       \/ dims[i] = PlaceholderDim(i - 1)
                       \/ /\ MapHas(dom.slide.dimSizes, dims[i])
                          /\ MapGet(dom.slide.dimSizes, dims[i]) = shape[i]

\* C30: every name in the dimension list of the group is a resolved
\* dimension name of at least one of its arrays.
C30_ListedDimsAreUsed ==
    GroupShown =>
        \A d \in dom.slide.dimList :
            \E v \in Listed : \E i \in 1..Len(v.dims) : v.dims[i] = d

====
